---- MODULE Spec2Model ----
(***************************************************************************)
(* A model of the ketos compilation pipeline and module registry.          *)
(*                                                                         *)
(* Part I  : ModuleRegistry and FileModuleLoader (src/ketos/module.rs) as  *)
(*           a call-stack machine: one frame per get_module call, one      *)
(*           action per step of get_module / load_module / guard_import /  *)
(*           load_module_from_file.                                        *)
(* Part II : the Compiler (src/ketos/compile.rs) as a machine over a chain *)
(*           of Compiler records, each with the work it has still to do:   *)
(*           one action per handler, one step per stretch of a handler     *)
(*           between two compile_value calls.                              *)
(***************************************************************************)
EXTENDS Integers, Sequences, FiniteSets, TLC

VARIABLES
    modules,    \* ModuleRegistry.modules : the cache, name -> module
    chain,      \* FileModuleLoader.chain : paths of the loads in progress
    stack,      \* the get_module calls in progress, outermost first
    files,      \* the file system: per module name, its .kts and .ktsc files
    source,     \* the top-level expressions of each module's .kts file
    nextScope,  \* identity of the next GlobalScope::new_using scope
    calls,      \* number of get_module calls the program has started
    loadCount,  \* per name, how often the loader's load_module was invoked
    log,        \* every get_module call that returned: name, depth, result
    scope,      \* the compile scope: its macros and its export declaration
    expr,       \* the expression handed to compile(scope, value)
    comps,      \* the Compilers in progress: the outer chain, innermost last
    cstate,     \* where the compile call stands: idle, running, done, failed
    cresult     \* what compile returned: the Code, or the error

rvars == <<modules, chain, stack, files, source, nextScope, calls, loadCount, log>>

cvars == <<scope, expr, comps, cstate, cresult>>

vars == <<rvars, cvars>>

-----------------------------------------------------------------------------
(* Bounds of the model *)

\* top-level get_module calls made by the program
MaxCalls == 2
\* top-level expressions in a module source file
MaxExprs == 2
\* macro expansions in progress, over all compilers of the chain, after
\* which the model stops following a compile call
MaxNesting == 104

-----------------------------------------------------------------------------
(* Names, paths and files *)

NameA == <<"a">>
NameB == <<"b">>
NameMath == <<"m", "a", "t", "h">>
NameDotted == <<"a", ".", "b">>

FileNames == {NameA, NameB}
AllNames == FileNames \cup {NameMath, NameDotted}

FILE_EXTENSION == <<"k", "t", "s">>
COMPILED_FILE_EXTENSION == <<"k", "t", "s", "c">>

\* format!("{}.{}", name_str, ext)
PathOf(name, ext) == name \o <<".">> \o ext

InvalidModuleName(name) ==
    \E i \in 1..Len(name) : name[i] \in {".", "/", "\\"}

\* modification times are (mtime, mtime_nsec) pairs
Times == {<<0, 0>>, <<0, 1>>, <<1, 0>>, <<1, 1>>}
\* the time stamped on a bytecode file written during the run
Now == <<1, 0>>

NoFile == [src |-> FALSE, code |-> FALSE, srcTime |-> <<0, 0>>,
           codeTime |-> <<0, 0>>, version |-> TRUE]

\* canonical file states: attributes of absent files are fixed
FileStates ==
    {NoFile}
    \cup {[NoFile EXCEPT !.src = TRUE]}
    \cup {[NoFile EXCEPT !.code = TRUE, !.version = v] : v \in BOOLEAN}
    \cup {[src |-> TRUE, code |-> TRUE, srcTime |-> s, codeTime |-> c, version |-> v] :
            s \in Times, c \in Times, v \in BOOLEAN}

\* a comparison that also accepts equal times
is_younger_impl_OrEqual(ma, mb) ==
    \/ ma[1] > mb[1]
    \/ ma[1] = mb[1] /\ ma[2] >= mb[2]

is_younger_impl(ma, mb) ==
    \/ ma[1] > mb[1]
    \/ ma[1] = mb[1] /\ ma[2] > mb[2]

is_younger(f) == is_younger_impl(f.codeTime, f.srcTime)

use_code_file(f) ==
    IF f.code
    THEN IF f.src THEN is_younger(f) ELSE TRUE
    ELSE FALSE

get_loader(name) ==
    name \in {<<"c", "o", "d", "e">>, NameMath, <<"r", "a", "n", "d", "o", "m">>}

-----------------------------------------------------------------------------
(* Module sources: the top-level expressions of a file, by what they do to *)
(* the load.                                                               *)

Item(k, m) == [k |-> k, m |-> m]
UseItem(m) == Item("use", m)            \* (use m ...)
ExportItem == Item("export", <<>>)      \* (export (...)) of defined names
ExportUndef == Item("export_undef", <<>>) \* (export (x)) with x never defined
ExprItem == Item("expr", <<>>)          \* compiles and runs
BadItem == Item("bad", <<>>)            \* fails to compile
BoomItem == Item("boom", <<>>)          \* compiles, fails when executed

SeqsUpTo(S, n) == UNION {[1..k -> S] : k \in 0..n}

-----------------------------------------------------------------------------
(* Values of the registry machine *)

NoModule == [name |-> <<>>, scope |-> 0]
Module(name, sc) == [name |-> name, scope |-> sc]

NoErr == <<>>
NoRes == [done |-> FALSE, ok |-> FALSE, mod |-> NoModule, err |-> NoErr]
Ok(m) == [done |-> TRUE, ok |-> TRUE, mod |-> m, err |-> NoErr]
Err(e) == [done |-> TRUE, ok |-> FALSE, mod |-> NoModule, err |-> e]

ImportCycle(name) == <<"ImportCycle", name>>
InvalidModuleNameError(name) == <<"InvalidModuleName", name>>
ModuleError(name) == <<"ModuleError", name>>
IncorrectVersion == <<"DecodeError", <<"IncorrectVersion">>>>
ExecError == <<"ExecError", <<>>>>
SyntaxError == <<"SyntaxError", <<>>>>
\* SyntaxError with its message, where the message tells the cases apart
SyntaxErrorOf(msg) == <<"SyntaxError", <<msg>>>>
DuplicateExports == <<"DuplicateExports", <<>>>>
MissingExport == <<"MissingExport", <<>>>>
ExportError(name) == <<"ExportError", name>>

Frame(name) ==
    [name |-> name, pc |-> "lookup", scope |-> 0, via |-> "none", i |-> 0,
     exported |-> "none", compiled |-> 0, executed |-> 0,
     ret |-> NoRes, res |-> NoRes]

Top == stack[Len(stack)]
Depth == Len(stack)

SetTop(f) == [stack EXCEPT ![Len(stack)] = f]

\* The top call returns res to its caller: the waiting op_use of the frame
\* below, or the program.
Returned(res) ==
    IF Len(stack) = 1
    THEN <<>>
    ELSE [SubSeq(stack, 1, Len(stack) - 1) EXCEPT ![Len(stack) - 1].ret = res]

Logged(res) == Append(log, [name |-> Top.name, depth |-> Len(stack), res |-> res])

\* guard_import: self.chain.borrow().iter().any(|p| p == path)
OnChain(path) == \E k \in 1..Len(chain) : chain[k] = path

\* a lookup that never finds the cached module
CacheGet_Miss(name) == NoModule

\* get_module: self.modules.borrow_mut().get(name).cloned()
CacheGet(name) == modules[name]

\* get_module: self.modules.borrow_mut().insert(name, m.clone())
CacheInsert(name, m) == [modules EXCEPT ![name] = m]

\* a registry that remembers a failed load under the name
CacheAfterError_Negative(name) == [modules EXCEPT ![name] = [name |-> name, scope |-> 0 - 1]]

\* what get_module leaves in the cache when load_module returned Err
CacheAfterError(name) == modules

\* a guard_import that returns the closure's error without the pop
Abort_SkipsPop(e) == SetTop([Top EXCEPT !.res = Err(e), !.pc = "insert"])

\* A load guarded by guard_import fails: the closure returns Err(e)
Abort(e) == SetTop([Top EXCEPT !.res = Err(e), !.pc = "unguard"])

-----------------------------------------------------------------------------
(* ModuleRegistry and FileModuleLoader *)

\* the program calls registry.get_module(name, scope)
Call(name) ==
    /\ stack = <<>>
    /\ calls < MaxCalls
    /\ stack' = <<Frame(name)>>
    /\ calls' = calls + 1
    /\ UNCHANGED <<modules, chain, files, source, nextScope, loadCount, log>>
    /\ UNCHANGED cvars

\* get_module: the cache lookup
Lookup ==
    /\ stack # <<>>
    /\ Top.pc = "lookup"
    /\ IF CacheGet(Top.name) # NoModule
       THEN /\ stack' = Returned(Ok(CacheGet(Top.name)))
            /\ log' = Logged(Ok(CacheGet(Top.name)))
       ELSE /\ stack' = SetTop([Top EXCEPT !.pc = "load"])
            /\ log' = log
    /\ UNCHANGED <<modules, chain, files, source, nextScope, calls, loadCount>>
    /\ UNCHANGED cvars

\* which branch FileModuleLoader::load_module takes for a valid name
LoadBranch(f) ==
    IF use_code_file(f) THEN "code"
    ELSE IF f.src THEN "source"
    ELSE "builtin"

\* a guard that compares against the top of the chain only
GuardFails_TopOnly(name) ==
    chain # <<>> /\ chain[Len(chain)] = PathOf(name, FILE_EXTENSION)

\* guard_import's check for the path of a file load
GuardFails(name) == OnChain(PathOf(name, FILE_EXTENSION))

\* load_module returned Err(e) to get_module, whose try! returns it
LoadFailed(e) ==
    /\ stack' = Returned(Err(e))
    /\ log' = Logged(Err(e))
    /\ modules' = CacheAfterError(Top.name)

\* get_module calls loader.load_module: name check, new scope, choice of
\* file, and guard_import's cycle check and push
LoadModule ==
    /\ stack # <<>>
    /\ Top.pc = "load"
    /\ loadCount' = [loadCount EXCEPT ![Top.name] = @ + 1]
    /\ LET name == Top.name
           branch == LoadBranch(files[name])
       IN  IF InvalidModuleName(name)
           THEN /\ LoadFailed(InvalidModuleNameError(name))
                /\ UNCHANGED <<chain, nextScope>>
           ELSE /\ nextScope' = nextScope + 1
                /\ IF branch = "builtin"
                   THEN /\ chain' = chain
                        /\ IF get_loader(name)
                           THEN /\ stack' = SetTop([Top EXCEPT
                                        !.scope = nextScope, !.via = "builtin",
                                        !.res = Ok(Module(name, nextScope)),
                                        !.pc = "insert"])
                                /\ UNCHANGED <<log, modules>>
                           ELSE LoadFailed(ModuleError(name))
                   ELSE IF GuardFails(name)
                   THEN /\ LoadFailed(ImportCycle(name))
                        /\ chain' = chain
                   ELSE /\ chain' = Append(chain, PathOf(name, FILE_EXTENSION))
                        /\ stack' = SetTop([Top EXCEPT
                                !.scope = nextScope, !.via = branch, !.i = 1,
                                !.pc = IF branch = "code" THEN "read_code" ELSE "compile"])
                        /\ UNCHANGED <<log, modules>>
    /\ UNCHANGED <<files, source, calls>>
    /\ UNCHANGED cvars

\* the closure of the compiled-file branch: read_bytecode_file, then
\* run_module_code, or load_module_from_file on a version mismatch
ReadBytecode ==
    /\ stack # <<>>
    /\ Top.pc = "read_code"
    /\ LET f == files[Top.name]
       IN  IF f.version
           THEN \E runs \in BOOLEAN :
                    stack' = SetTop([Top EXCEPT
                        !.res = IF runs THEN Ok(Module(Top.name, Top.scope))
                                ELSE Err(ExecError),
                        !.pc = "unguard"])
           ELSE IF f.src
           THEN stack' = SetTop([Top EXCEPT !.via = "fallback", !.pc = "compile", !.i = 1])
           ELSE stack' = Abort(IncorrectVersion)
    /\ UNCHANGED <<modules, chain, files, source, nextScope, calls, loadCount, log>>
    /\ UNCHANGED cvars

CurItem == source[Top.name][Top.i]
AtItem == stack # <<>> /\ Top.i \in 1..Len(source[Top.name])

\* a loader that executes each expression as soon as it is compiled
CompileExpr_Interleaved ==
    /\ stack # <<>>
    /\ Top.pc = "compile"
    /\ IF ~AtItem
       THEN stack' = SetTop([Top EXCEPT !.pc = "execute", !.i = 1])
       ELSE /\ CurItem.k # "use"
            /\ CASE CurItem.k = "bad" -> stack' = Abort(SyntaxError)
                 [] CurItem.k \in {"export", "export_undef"} ->
                        IF Top.exported # "none"
                        THEN stack' = Abort(DuplicateExports)
                        ELSE stack' = SetTop([Top EXCEPT
                                !.exported = CurItem.k, !.executed = @ + 1,
                                !.compiled = @ + 1, !.i = @ + 1])
                 [] OTHER -> stack' = SetTop([Top EXCEPT !.compiled = @ + 1, !.i = @ + 1])
    /\ UNCHANGED <<modules, chain, files, source, nextScope, calls, loadCount, log>>
    /\ UNCHANGED cvars

\* load_module_from_file: compile(&scope, e) for the next expression that
\* is not a `use`, or the end of the compile loop
CompileExpr ==
    /\ stack # <<>>
    /\ Top.pc = "compile"
    /\ IF ~AtItem
       THEN stack' = SetTop([Top EXCEPT !.pc = "execute", !.i = 1])
       ELSE /\ CurItem.k # "use"
            /\ CASE CurItem.k = "bad" -> stack' = Abort(SyntaxError)
                 [] CurItem.k \in {"export", "export_undef"} ->
                        IF Top.exported # "none"
                        THEN stack' = Abort(DuplicateExports)
                        ELSE stack' = SetTop([Top EXCEPT
                                !.exported = CurItem.k,
                                !.compiled = @ + 1, !.i = @ + 1])
                 [] OTHER -> stack' = SetTop([Top EXCEPT !.compiled = @ + 1, !.i = @ + 1])
    /\ UNCHANGED <<modules, chain, files, source, nextScope, calls, loadCount, log>>
    /\ UNCHANGED cvars

\* op_use: mods.get_module(mod_name, compiler.scope) re-enters the registry
UseModule ==
    /\ stack # <<>>
    /\ Top.pc = "compile"
    /\ AtItem
    /\ CurItem.k = "use"
    /\ ~Top.ret.done
    /\ stack' = Append(stack, Frame(CurItem.m))
    /\ UNCHANGED <<modules, chain, files, source, nextScope, calls, loadCount, log>>
    /\ UNCHANGED cvars

\* op_use after get_module returned: try! propagates the error, otherwise
\* the names are imported and compilation goes on
UseReturn ==
    /\ stack # <<>>
    /\ Top.pc = "compile"
    /\ Top.ret.done
    /\ IF Top.ret.ok
       THEN stack' = SetTop([Top EXCEPT !.ret = NoRes, !.compiled = @ + 1, !.i = @ + 1])
       ELSE stack' = SetTop([Top EXCEPT !.ret = NoRes, !.res = Err(Top.ret.err),
                                        !.pc = "unguard"])
    /\ UNCHANGED <<modules, chain, files, source, nextScope, calls, loadCount, log>>
    /\ UNCHANGED cvars

\* load_module_from_file: execute(&scope, code) for the next expression
ExecuteExpr ==
    /\ stack # <<>>
    /\ Top.pc = "execute"
    /\ IF ~AtItem
       THEN stack' = SetTop([Top EXCEPT !.pc = "check_exports"])
       ELSE IF CurItem.k = "boom"
       THEN stack' = Abort(ExecError)
       ELSE stack' = SetTop([Top EXCEPT !.executed = @ + 1, !.i = @ + 1])
    /\ UNCHANGED <<modules, chain, files, source, nextScope, calls, loadCount, log>>
    /\ UNCHANGED cvars

check_exports(exported, mod_name) ==
    CASE exported = "none" -> MissingExport
      [] exported = "export_undef" -> ExportError(mod_name)
      [] OTHER -> NoErr

CheckExports ==
    /\ stack # <<>>
    /\ Top.pc = "check_exports"
    /\ LET e == check_exports(Top.exported, Top.name)
       IN  IF e # NoErr
           THEN stack' = Abort(e)
           ELSE stack' = SetTop([Top EXCEPT !.pc = "write"])
    /\ UNCHANGED <<modules, chain, files, source, nextScope, calls, loadCount, log>>
    /\ UNCHANGED cvars

\* write_bytecode_file; a failure is only reported on stderr
WriteBytecode ==
    /\ stack # <<>>
    /\ Top.pc = "write"
    /\ \E written \in BOOLEAN :
        files' = IF written
                 THEN [files EXCEPT ![Top.name].code = TRUE,
                                    ![Top.name].codeTime = Now,
                                    ![Top.name].version = TRUE]
                 ELSE files
    /\ stack' = SetTop([Top EXCEPT !.res = Ok(Module(Top.name, Top.scope)),
                                   !.pc = "unguard"])
    /\ UNCHANGED <<modules, chain, source, nextScope, calls, loadCount, log>>
    /\ UNCHANGED cvars

\* guard_import after f(): pop the chain, return r; get_module's try!
Unguard ==
    /\ stack # <<>>
    /\ Top.pc = "unguard"
    /\ chain' = SubSeq(chain, 1, Len(chain) - 1)
    /\ IF Top.res.ok
       THEN /\ stack' = SetTop([Top EXCEPT !.pc = "insert"])
            /\ log' = log
            /\ modules' = modules
       ELSE LoadFailed(Top.res.err)
    /\ UNCHANGED <<files, source, nextScope, calls, loadCount>>
    /\ UNCHANGED cvars

\* get_module: insert into the cache, return Ok(m)
Insert ==
    /\ stack # <<>>
    /\ Top.pc = "insert"
    /\ modules' = CacheInsert(Top.name, Top.res.mod)
    /\ stack' = Returned(Top.res)
    /\ log' = Logged(Top.res)
    /\ UNCHANGED <<chain, files, source, nextScope, calls, loadCount>>
    /\ UNCHANGED cvars

\* a get_module that binds its lookup borrow to a local of the function
Borrowed_HeldToReturn(pc) ==
    IF pc = "lookup" THEN {} ELSE {"modules"}

\* The RefCell borrows an activation of get_module holds when it stands at
\* pc. Every borrow of the source is a temporary: modules.borrow_mut() of the
\* lookup dies with the if-let statement, chain.borrow() with the condition
\* of guard_import's if, chain.borrow_mut() of push and of pop and
\* modules.borrow_mut() of insert with their statements; so none outlives
\* the step that takes it.
Borrowed(pc) ==
    IF pc \in {"lookup", "load", "read_code", "compile", "execute",
               "check_exports", "write", "unguard", "insert"}
    THEN {}
    ELSE {"modules", "chain"}

RegistryNext ==
    \/ \E name \in AllNames : Call(name)
    \/ Lookup
    \/ LoadModule
    \/ ReadBytecode
    \/ CompileExpr
    \/ UseModule
    \/ UseReturn
    \/ ExecuteExpr
    \/ CheckExports
    \/ WriteBytecode
    \/ Unguard
    \/ Insert

-----------------------------------------------------------------------------
(* Part II. Values, as compile.rs matches on them *)

VName(n) == [t |-> "name", n |-> n]
VKeyword(n) == [t |-> "keyword", n |-> n]
VInteger(i) == [t |-> "integer", i |-> i]
VUnit == [t |-> "unit"]
VBool(b) == [t |-> "bool", b |-> b]
VFloat(f) == [t |-> "float", f |-> f]
\* Value::List is never empty: the parser reads () as Value::Unit
VList(li) == [t |-> "list", li |-> li]
VQuote(v, d) == [t |-> "quote", v |-> v, d |-> d]
VComma(v, d) == [t |-> "comma", v |-> v, d |-> d]
VCommaAt(v, d) == [t |-> "comma-at", v |-> v, d |-> d]
VQuasiquote(v, d) == [t |-> "quasiquote", v |-> v, d |-> d]
VLambda(code) == [t |-> "lambda", code |-> code]

is_constant(v) ==
    v.t \in {"unit", "bool", "float", "integer", "ratio", "keyword", "char",
             "string", "quote"}

\* Value::is_identical: structural identity of two constants
is_identical(a, b) == a = b

\* the names name.rs reserves for the system operators, in table order
SYSTEM_OPERATORS ==
    <<"apply", "do", "let", "define", "macro", "struct", "if", "and", "or",
      "case", "cond", "lambda", "export", "use">>

is_system_operator(name) ==
    \E k \in 1..Len(SYSTEM_OPERATORS) : SYSTEM_OPERATORS[k] = name

\* Arity and Arity::accepts
Exact(n) == [kind |-> "Exact", lo |-> n, hi |-> n]
Min(n) == [kind |-> "Min", lo |-> n, hi |-> n]
Range(lo, hi) == [kind |-> "Range", lo |-> lo, hi |-> hi]
accepts(arity, n) ==
    CASE arity.kind = "Exact" -> n = arity.lo
      [] arity.kind = "Min" -> n >= arity.lo
      [] OTHER -> n >= arity.lo /\ n <= arity.hi

\* the arity column of the SYSTEM_OPERATORS table
OperatorArity(name) ==
    CASE name \in {"apply", "use"} -> Min(2)
      [] name \in {"do", "and", "or", "cond"} -> Min(1)
      [] name \in {"let", "define", "macro", "struct", "lambda"} -> Exact(2)
      [] name = "if" -> Range(2, 3)
      [] name = "case" -> Min(2)
      [] OTHER -> Exact(1)

\* get_system_fn: the system functions the expressions of the model call
NoArity == [kind |-> "None", lo |-> 0, hi |-> 0]
get_system_fn(name) ==
    CASE name = "+" -> Min(0)
      [] name = "xor" -> Exact(2)
      [] name = "concat" -> Min(1)
      [] OTHER -> NoArity

-----------------------------------------------------------------------------
(* Instructions and code blocks (bytecode.rs) *)

Instr(op, a, b, fn) == [op |-> op, a |-> a, b |-> b, fn |-> fn]
I0(op) == Instr(op, 0, 0, "")
I1(op, a) == Instr(op, a, 0, "")
I2(op, a, b) == Instr(op, a, b, "")
CallSys(fn) == Instr("CallSys", 0, 0, fn)
CallSysArgs(fn, n) == Instr("CallSysArgs", 0, n, fn)
NoInstr == I0("none")

\* operands an instruction carries after its opcode byte
Operands(op) ==
    CASE op \in {"Push", "Unit", "True", "False", "Return", "Null", "Not",
                 "Eq", "NotEq", "First", "Tail", "Init", "Last", "Append"} -> 0
      [] op \in {"CallConst", "CallSysArgs", "BuildClosure"} -> 2
      [] OTHER -> 1

\* instructions whose first operand indexes the constant pool
ConstOps ==
    {"Const", "GetDef", "SetDef", "CallConst", "EqConst", "NotEqConst",
     "BuildClosure", "JumpIfEqConst"}

NoBlock == 0 - 1
NoJump == [j |-> "none", a |-> 0, to |-> NoBlock]
Jump(j, a, to) == [j |-> j, a |-> a, to |-> to]

\* operands of a jump beside its target
JumpOperands(j) == IF j \in {"JumpIfBound", "JumpIfEqConst"} THEN 1 ELSE 0

MAX_SHORT_OPERAND == 127

OperandWidth(short) == IF short THEN 1 ELSE 2

CodeBlock_new == [bytes |-> <<>>, instr_part |-> NoInstr, jump |-> NoJump, next |-> NoBlock]
CodeBlock_empty == [bytes |-> <<>>, instr_part |-> NoInstr, jump |-> NoJump, next |-> NoBlock]

\* the peephole slot: a load followed by a push becomes one opcode
Fuses(pending, instr) == pending.op \in {"Load", "LoadC"} /\ instr.op = "Push"
Fused(pending) == [pending EXCEPT !.op = IF @ = "Load" THEN "LoadPush" ELSE "LoadCPush"]

\* CodeBlock::push_instruction
block_push_instruction(b, instr) ==
    IF b.instr_part = NoInstr THEN [b EXCEPT !.instr_part = instr]
    ELSE IF Fuses(b.instr_part, instr)
    THEN [b EXCEPT !.bytes = Append(@, Fused(b.instr_part)), !.instr_part = NoInstr]
    ELSE [b EXCEPT !.bytes = Append(@, b.instr_part), !.instr_part = instr]

\* CodeBlock::flush commits the pending instruction
flush(b) ==
    IF b.instr_part = NoInstr THEN b
    ELSE [b EXCEPT !.bytes = Append(@, b.instr_part), !.instr_part = NoInstr]

jump_to(b, jump) == [b EXCEPT !.jump = jump]
set_next(b, block) == [b EXCEPT !.next = block]

is_mostly_empty(b) == b.bytes = <<>> /\ b.instr_part.op \in {"none", "Skip"}

InstrSize(instr, short) == 1 + Operands(instr.op) * OperandWidth(short)
JumpSize(jump, short) == 1 + (1 + JumpOperands(jump.j)) * OperandWidth(short)

RECURSIVE SumSizes(_, _)
SumSizes(s, short) ==
    IF s = <<>> THEN 0
    ELSE (IF s[1].op \in {"Jump", "JumpIf", "JumpIfNot", "JumpIfNull",
                          "JumpIfNotNull", "JumpIfBound", "JumpIfEqConst"}
          THEN 1 + (1 + JumpOperands(s[1].op)) * OperandWidth(short)
          ELSE InstrSize(s[1], short))
         + SumSizes(Tail(s), short)

\* CodeBlock::calculate_size
calculate_size(b, short) ==
    SumSizes(b.bytes, short)
    + (IF b.instr_part = NoInstr THEN 0 ELSE InstrSize(b.instr_part, short))
    + (IF b.jump = NoJump THEN 0 ELSE JumpSize(b.jump, short))

\* CodeBlock::write_jump fails with OperandOverflow when the offset exceeds
\* the chosen operand width; the long width holds every offset of the model
Overflows(dest_off, short) == short /\ dest_off > MAX_SHORT_OPERAND

\* CodeBlock::write_jump encodes the jump with its resolved offset
write_jump(b, dest_off, short) ==
    [b EXCEPT !.bytes = Append(@, Instr(b.jump.j, b.jump.a, dest_off, "")),
              !.jump = NoJump]

-----------------------------------------------------------------------------
(* Assembly: block pruning, layout and jump fix-up *)

Blk(blocks, n) == blocks[n + 1]

RECURSIVE BlockReturnsFrom(_, _, _)
BlockReturnsFrom(b, blocks, fuel) ==
    IF b.next = NoBlock THEN TRUE
    ELSE IF fuel = 0 THEN FALSE
    ELSE IF b.jump.j = "Jump" /\ is_mostly_empty(Blk(blocks, b.jump.to))
    THEN BlockReturnsFrom(Blk(blocks, b.jump.to), blocks, fuel - 1)
    ELSE IF is_mostly_empty(Blk(blocks, b.next))
    THEN BlockReturnsFrom(Blk(blocks, b.next), blocks, fuel - 1)
    ELSE FALSE

\* block_returns that looks one block ahead and no further
block_returns_OneStep(b, blocks) ==
    \/ b.next = NoBlock
    \/ b.jump.j = "Jump" /\ is_mostly_empty(Blk(blocks, b.jump.to))
    \/ is_mostly_empty(Blk(blocks, b.next))

\* block_returns: does control that enters b reach the end of the code
\* through mostly empty blocks only
block_returns(b, blocks) == BlockReturnsFrom(b, blocks, Len(blocks))

RECURSIVE SumBlocks(_, _)
SumBlocks(blocks, short) ==
    IF blocks = <<>> THEN 0
    ELSE calculate_size(blocks[1], short) + SumBlocks(Tail(blocks), short)

\* estimate_size at the width it is about to choose
estimate_size_Short(blocks) == SumBlocks(blocks, TRUE) + 1

\* estimate_size: the blocks at the long width, plus one for the final Return
estimate_size(blocks) == SumBlocks(blocks, FALSE) + 1

NoOffset == 0 - 1

\* the state of the loop of write_jumps before it visits block i
WalkStart(blocks) ==
    [blocks |-> blocks,
     new_blocks |-> <<>>,
     order |-> <<>>,
     offsets |-> [n \in 0..(Len(blocks) - 1) |-> NoOffset],
     must_live |-> [n \in 0..(Len(blocks) - 1) |-> FALSE],
     off |-> 0,
     i |-> 0,
     done |-> FALSE]

\* the block is written out: its offset, and the offset after it
KeepBlock(w, kept, short) ==
    [w EXCEPT !.new_blocks = Append(@, kept),
              !.order = Append(@, w.i),
              !.offsets[w.i] = w.off,
              !.off = @ + calculate_size(kept, short)]

\* the end of a turn of the loop: on to b.next, or out of the loop
NextBlock(w, b) ==
    [w EXCEPT !.i = IF b.next = NoBlock THEN @ ELSE b.next,
              !.done = b.next = NoBlock]

\* a turn of the loop that prunes without asking must_live
VisitBlock_PruneLive(w, b, short) ==
    NextBlock(IF block_returns(b, w.blocks)
              THEN IF is_mostly_empty(b) THEN w
                   ELSE KeepBlock(w, flush(block_push_instruction(
                                         [b EXCEPT !.jump = NoJump], I0("Return"))),
                                  short)
              ELSE KeepBlock(w, flush(b), short),
              b)

\* a turn of the loop for block b, which is taken out of self.blocks
VisitBlock(w, b, short) ==
    NextBlock(IF block_returns(b, w.blocks)
              THEN IF ~w.must_live[w.i] /\ is_mostly_empty(b) THEN w
                   ELSE KeepBlock(w, flush(block_push_instruction(
                                         [b EXCEPT !.jump = NoJump], I0("Return"))),
                                  short)
              ELSE KeepBlock(w, flush(b), short),
              b)

\* one turn of the loop of write_jumps
WalkBlock(w, short) ==
    VisitBlock([w EXCEPT !.blocks[w.i + 1] = CodeBlock_empty,
                         !.must_live = IF Blk(w.blocks, w.i).jump.j \notin {"none", "Jump"}
                                       THEN [@ EXCEPT ![Blk(w.blocks, w.i).jump.to] = TRUE]
                                       ELSE @],
               Blk(w.blocks, w.i), short)

RECURSIVE WalkBlocks(_, _, _)
WalkBlocks(w, short, fuel) ==
    IF w.done \/ fuel = 0 THEN w
    ELSE WalkBlocks(WalkBlock(w, short), short, fuel - 1)

\* the jumps of the retained blocks, patched to the offsets
RECURSIVE PatchJumps(_, _, _)
PatchJumps(new_blocks, offsets, short) ==
    IF new_blocks = <<>> THEN <<>>
    ELSE <<IF new_blocks[1].jump = NoJump THEN new_blocks[1]
           ELSE write_jump(new_blocks[1], offsets[new_blocks[1].jump.to], short)>>
         \o PatchJumps(Tail(new_blocks), offsets, short)

\* the retained blocks whose jump leads to a block that was pruned
DeadJumps(w) ==
    {k \in 1..Len(w.new_blocks) :
        /\ w.new_blocks[k].jump # NoJump
        /\ w.offsets[w.new_blocks[k].jump.to] = NoOffset}

\* write_jumps after its loop: the jumps are written
JumpsWritten(w, short) ==
    [short |-> short,
     hangs |-> ~w.done,
     panic |-> w.done /\ DeadJumps(w) # {},
     overflow |-> /\ w.done
                  /\ DeadJumps(w) = {}
                  /\ \E k \in 1..Len(w.new_blocks) :
                         /\ w.new_blocks[k].jump # NoJump
                         /\ Overflows(w.offsets[w.new_blocks[k].jump.to], short),
     laid |-> w.new_blocks,
     order |-> w.order,
     offsets |-> w.offsets,
     total |-> w.off,
     blocks |-> IF w.done /\ DeadJumps(w) = {}
                THEN PatchJumps(w.new_blocks, w.offsets, short)
                ELSE <<>>]

WriteJumpsAt(blocks, short) ==
    JumpsWritten(WalkBlocks(WalkStart(blocks), short, Len(blocks)), short)

\* write_jumps: the retained blocks in layout order with their jumps
\* written, the offset of every retained block, and the total size
write_jumps(blocks) == WriteJumpsAt(blocks, estimate_size(blocks) <= MAX_SHORT_OPERAND)

RECURSIVE get_bytes(_)
get_bytes(blocks) ==
    IF blocks = <<>> THEN <<>> ELSE blocks[1].bytes \o get_bytes(Tail(blocks))

\* assemble_code after write_jumps: the bytes of the blocks, one after
\* another, and the assertion on their length
Assembled(r) ==
    [short |-> r.short,
     hangs |-> r.hangs,
     panic |-> r.panic
               \/ (/\ ~r.hangs /\ ~r.panic /\ ~r.overflow
                   /\ SumSizes(get_bytes(r.blocks), r.short) # r.total),
     overflow |-> r.overflow,
     code |-> get_bytes(r.blocks)]

assemble_code(blocks) == Assembled(write_jumps(blocks))

-----------------------------------------------------------------------------
(* The Compiler and its helper methods *)

NoName == ""
DummyName == "#dummy"

MAX_MACRO_RECURSION == 100

MacroRecursionExceeded == <<"MacroRecursionExceeded", <<>>>>
ArityError(name) == <<"ArityError", name>>
InvalidCallExpression == <<"InvalidCallExpression", <<>>>>
UnbalancedComma == <<"UnbalancedComma", <<>>>>
InvalidCommaAt == <<"InvalidCommaAt", <<>>>>
CannotDefine(name) == <<"CannotDefine", name>>
DuplicateParameter(name) == <<"DuplicateParameter", name>>
OperandOverflow == <<"OperandOverflow", <<>>>>
\* a failed assert! or expect: the thread panics
Panic(what) == <<"panic", what>>

\* the arguments of compile_lambda, of a compiler that compile made
NoLam == [params |-> <<>>, req_params |-> 0, kw_params |-> <<>>, rest |-> "", body |-> VUnit]

\* Compiler::with_outer; the outer compilers are the ones below it in comps.
\* tasks is what the compiler has still to do, err the Err it returned.
with_outer(name) ==
    [consts |-> <<>>,
     blocks |-> <<CodeBlock_new>>,
     cur_block |-> 0,
     stack |-> <<>>,
     stack_offset |-> 0,
     captures |-> <<>>,
     self_name |-> name,
     macro_recursion |-> 0,
     lam |-> NoLam,
     tasks |-> <<>>,
     err |-> NoErr]

Fail(c, e) == IF c.err = NoErr THEN [c EXCEPT !.err = e] ELSE c
Failed(c) == c.err # NoErr

current_block(c) == c.blocks[c.cur_block + 1]
SetCurrentBlock(c, b) == [c EXCEPT !.blocks[c.cur_block + 1] = b]

\* push_instruction booking a Call or an Apply without the function it pops
StackEffect_ArgsOnly(instr) ==
    CASE instr.op = "Push" -> 1
      [] instr.op \in {"BuildClosure", "CallSysArgs", "CallConst"} -> 0 - instr.b
      [] instr.op \in {"List", "Skip", "CallSelf", "Call", "Apply"} -> 0 - instr.a
      [] instr.op \in {"Eq", "NotEq"} -> 0 - 1
      [] OTHER -> 0

\* the change of stack_offset that push_instruction books for instr
StackEffect(instr) ==
    CASE instr.op = "Push" -> 1
      [] instr.op \in {"BuildClosure", "CallSysArgs", "CallConst"} -> 0 - instr.b
      [] instr.op \in {"List", "Skip", "CallSelf"} -> 0 - instr.a
      [] instr.op \in {"Call", "Apply"} -> 0 - (instr.a + 1)
      [] instr.op \in {"Eq", "NotEq"} -> 0 - 1
      [] OTHER -> 0

\* Compiler::push_instruction
push_instruction(c, instr) ==
    IF Failed(c) THEN c
    ELSE SetCurrentBlock([c EXCEPT !.stack_offset = @ + StackEffect(instr)],
                         block_push_instruction(current_block(c), instr))

RECURSIVE PositionFrom(_, _, _)
PositionFrom(consts, v, k) ==
    IF k > Len(consts) THEN 0
    ELSE IF is_identical(consts[k], v) THEN k
    ELSE PositionFrom(consts, v, k + 1)

\* add_const without the search of self.consts
add_const_Append(c, v) == [c |-> [c EXCEPT !.consts = Append(@, v)], r |-> Len(c.consts)]

\* add_const: the index of v in the pool, appended when it is not there
add_const(c, v) ==
    LET pos == PositionFrom(c.consts, v, 1)
    IN  IF pos # 0 THEN [c |-> c, r |-> pos - 1]
        ELSE [c |-> [c EXCEPT !.consts = Append(@, v)], r |-> Len(c.consts)]

add_const_value(c, v) ==
    IF v.t = "quote" /\ v.d = 1 THEN add_const(c, v.v)
    ELSE IF v.t = "quote" THEN add_const(c, VQuote(v.v, v.d - 1))
    ELSE add_const(c, v)

\* the rightmost entry of a stack of (name, offset) pairs that binds name
RECURSIVE RightmostFrom(_, _, _)
RightmostFrom(stk, name, k) ==
    IF k = 0 THEN 0
    ELSE IF stk[k][1] = name THEN k
    ELSE RightmostFrom(stk, name, k - 1)

OnStack(stk, name) == \E k \in 1..Len(stk) : stk[k][1] = name

\* closure_value without the search of self.captures
closure_value_Recapture(c, outer, name) ==
    IF \E o \in 1..Len(outer) : OnStack(outer[o].stack, name)
    THEN [c |-> [c EXCEPT !.captures = Append(@, name)], r |-> Len(c.captures)]
    ELSE [c |-> c, r |-> 0 - 1]

\* closure_value: the index of name among the captures, captured now when
\* a compiler of the outer chain binds it
closure_value(c, outer, name) ==
    LET pos == CHOOSE k \in 0..Len(c.captures) :
                   /\ k # 0 => c.captures[k] = name
                   /\ \A j \in 1..Len(c.captures) : c.captures[j] = name => k # 0 /\ k <= j
    IN  IF pos # 0 THEN [c |-> c, r |-> pos - 1]
        ELSE IF \E o \in 1..Len(outer) : OnStack(outer[o].stack, name)
        THEN [c |-> [c EXCEPT !.captures = Append(@, name)], r |-> Len(c.captures)]
        ELSE [c |-> c, r |-> 0 - 1]

\* load_local_name: Load of a local, LoadC of a captured value, or nothing
load_local_name(c, outer, name) ==
    LET k == RightmostFrom(c.stack, name, Len(c.stack))
        cv == closure_value(c, outer, name)
    IN  IF k # 0 THEN [c |-> push_instruction(c, I1("Load", c.stack[k][2])), r |-> TRUE]
        ELSE IF c.self_name # NoName /\ c.self_name = name THEN [c |-> c, r |-> FALSE]
        ELSE IF cv.r >= 0 THEN [c |-> push_instruction(cv.c, I1("LoadC", cv.r)), r |-> TRUE]
        ELSE [c |-> c, r |-> FALSE]

load_quoted_value(c, v) ==
    CASE v.t = "unit" -> push_instruction(c, I0("Unit"))
      [] v.t = "bool" -> push_instruction(c, I0(IF v.b THEN "True" ELSE "False"))
      [] OTHER -> LET k == add_const(c, v) IN push_instruction(k.c, I1("Const", k.r))

load_const_value(c, v) ==
    CASE v.t = "unit" -> push_instruction(c, I0("Unit"))
      [] v.t = "bool" -> push_instruction(c, I0(IF v.b THEN "True" ELSE "False"))
      [] v.t = "quote" /\ v.d = 1 -> load_quoted_value(c, v.v)
      [] v.t = "quote" /\ v.d # 1 -> load_quoted_value(c, VQuote(v.v, v.d - 1))
      [] OTHER -> LET k == add_const(c, v) IN push_instruction(k.c, I1("Const", k.r))

\* the loop of load_lambda over the captures from the k-th on
RECURSIVE LoadCaptures(_, _, _, _)
LoadCaptures(c, outer, captures, k) ==
    IF k > Len(captures) \/ Failed(c) THEN c
    ELSE LET l == load_local_name(c, outer, captures[k])
         IN  IF ~l.r THEN Fail(c, Panic("assertion failed: _loaded"))
             ELSE LoadCaptures(push_instruction(l.c, I0("Push")), outer, captures, k + 1)

load_lambda(c, outer, n, captures) ==
    IF captures = <<>> THEN push_instruction(c, I1("Const", n))
    ELSE push_instruction(LoadCaptures(c, outer, captures, 1),
                          I2("BuildClosure", n, Len(captures)))

push_var(c, name) == [c EXCEPT !.stack = Append(@, <<name, c.stack_offset>>)]
pop_vars(c, n) == [c EXCEPT !.stack = SubSeq(@, 1, Len(@) - n)]

write_call_sys(c, name, arity, n_args) ==
    IF arity.kind = "Exact"
    THEN push_instruction([c EXCEPT !.stack_offset = @ - arity.lo], CallSys(name))
    ELSE push_instruction(c, CallSysArgs(name, n_args))

new_block(c) == [c |-> [c EXCEPT !.blocks = Append(@, CodeBlock_new)], r |-> Len(c.blocks)]
use_block(c, block) == [c EXCEPT !.cur_block = block]
\* a use_next that links the current block to itself
use_next_Loop(c, block) ==
    use_block(SetCurrentBlock(c, set_next(current_block(c), c.cur_block)), block)
use_next(c, block) == use_block(SetCurrentBlock(c, set_next(current_block(c), block)), block)
flush_instructions(c) == SetCurrentBlock(c, flush(current_block(c)))
\* self.current_block().jump_to(jump, block)
JumpTo(c, j, a, block) == SetCurrentBlock(c, jump_to(current_block(c), Jump(j, a, block)))

-----------------------------------------------------------------------------
(* The compile scope and its macros *)

\* A macro of the scope: its name, and the Lambda that expands it. The
\* model has the lambdas of four macro definitions,
\*   countdown         (macro (m k) (if (= k 0) 0 `(m ,(- k 1))))
\*   lambda-countdown  (macro (m k) (if (= k 0) 0 `(lambda () (m ,(- k 1)))))
\*   loop              (macro (m) '(m))
\*   lambda-loop       (macro (m) '(lambda () (m)))
\* and, for a macro that op_macro defined, its compiled Code.
Macro(name, kind, code) == [name |-> name, kind |-> kind, code |-> code]

contains_macro(sc, name) == \E k \in 1..Len(sc.macros) : sc.macros[k].name = name
get_macro(sc, name) ==
    sc.macros[CHOOSE k \in 1..Len(sc.macros) : sc.macros[k].name = name]
add_macro(sc, name, lambda) ==
    [sc EXCEPT !.macros =
        SelectSeq(@, LAMBDA m : m.name # name) \o <<Macro(name, "user", lambda.code)>>]

\* what running straight-line code that loads one constant returns
RunsToConstant(code) ==
    /\ Len(code.code) = 2
    /\ code.code[1].op \in {"Unit", "True", "False", "Const"}
    /\ code.code[2].op = "Return"

ConstantOf(code) ==
    CASE code.code[1].op = "Unit" -> VUnit
      [] code.code[1].op = "True" -> VBool(TRUE)
      [] code.code[1].op = "False" -> VBool(FALSE)
      [] OTHER -> code.consts[code.code[1].a + 1]

\* execute_lambda(lambda, args) for a macro: the expansion, or an error
execute_lambda(m, args) ==
    LET again(k) == VList(<<VName(m.name)>> \o k)
        in_lambda(v) == VList(<<VName("lambda"), VUnit, v>>)
        counts == Len(args) = 1 /\ args[1].t = "integer" /\ args[1].i >= 0
    IN  CASE m.kind = "loop" /\ args = <<>> -> [ok |-> TRUE, v |-> again(<<>>)]
          [] m.kind = "lambda-loop" /\ args = <<>> ->
                [ok |-> TRUE, v |-> in_lambda(again(<<>>))]
          [] m.kind = "countdown" /\ counts ->
                [ok |-> TRUE,
                 v |-> IF args[1].i = 0 THEN VInteger(0)
                       ELSE again(<<VInteger(args[1].i - 1)>>)]
          [] m.kind = "lambda-countdown" /\ counts ->
                [ok |-> TRUE,
                 v |-> IF args[1].i = 0 THEN VInteger(0)
                       ELSE in_lambda(again(<<VInteger(args[1].i - 1)>>))]
          [] m.kind = "user" /\ args = <<>> /\ RunsToConstant(m.code) ->
                [ok |-> TRUE, v |-> ConstantOf(m.code)]
          [] OTHER -> [ok |-> FALSE, v |-> VUnit]

-----------------------------------------------------------------------------
(* What a compiler has still to do *)

\* One entry of a compiler's work: k says what, the other fields are the
\* local variables the handler needs when it goes on.
Task(k, name, st, args, loc, names, instr) ==
    [k |-> k, name |-> name, st |-> st, args |-> args, loc |-> loc,
     names |-> names, instr |-> instr]

\* compile_value(v)
TValue(v) == Task("value", "", 0, <<v>>, <<>>, <<>>, NoInstr)
\* push_instruction(instr)
TInstr(instr) == Task("instr", "", 0, <<>>, <<>>, <<>>, instr)
\* c = add_const_value(v); push_instruction(op(c))
TConstInstr(op, v) == Task("instr", "", 0, <<v>>, <<>>, <<>>, I0(op))
\* macro_recursion -= 1
TUnmacro == Task("unmacro", "", 0, <<>>, <<>>, <<>>, NoInstr)
\* the call instruction of compile_value, after the arguments
TCall(li, pushed_fn) == Task("call", "", 0, li, <<IF pushed_fn THEN 1 ELSE 0>>, <<>>, NoInstr)
\* a system operator's callback, at stage st with locals loc
TOp(name, st, args, loc) == Task("op", name, st, args, loc, <<>>, NoInstr)
\* compile_quasiquote(v, depth)
TQuasi(v, depth) == Task("quasi", "", depth, <<v>>, <<>>, <<>>, NoInstr)
\* compile_quasiquote_list(li, depth) at element k
TQList(li, k, n_items, n_lists, depth) ==
    Task("qlist", "", k, li, <<n_items, n_lists, depth>>, <<>>, NoInstr)
\* assemble_code, at the end of compile or compile_lambda
TAssemble == Task("assemble", "", 0, <<>>, <<>>, <<>>, NoInstr)

Sched(c, ts) == IF Failed(c) THEN c ELSE [c EXCEPT !.tasks = ts \o @]

\* compile_value(v); push_instruction(Push), for each of vs
RECURSIVE PushEach(_)
PushEach(vs) ==
    IF vs = <<>> THEN <<>>
    ELSE <<TValue(vs[1]), TInstr(I0("Push"))>> \o PushEach(Tail(vs))

RECURSIVE ValueEach(_)
ValueEach(vs) ==
    IF vs = <<>> THEN <<>> ELSE <<TValue(vs[1])>> \o ValueEach(Tail(vs))

-----------------------------------------------------------------------------
(* compile_value *)

is_macro(sc, name) == contains_macro(sc, name)

\* the three shapes of the inlined = and /=
InlineCompare(c, args, plain, with_const) ==
    IF is_constant(args[2])
    THEN Sched(c, <<TValue(args[1]), TConstInstr(with_const, args[2])>>)
    ELSE IF is_constant(args[1])
    THEN LET k == add_const_value(c, args[1])
         IN  Sched(k.c, <<TValue(args[2]), TInstr(I1(with_const, k.r))>>)
    ELSE Sched(c, <<TValue(args[1]), TInstr(I0("Push")), TValue(args[2]),
                    TInstr(I0(plain))>>)

UnaryInline(name) ==
    CASE name = "null" -> "Null"
      [] name = "not" -> "Not"
      [] name = "first" -> "First"
      [] name = "tail" -> "Tail"
      [] name = "init" -> "Init"
      [] OTHER -> "Last"

\* inline_call: r says whether the call was compiled inline
inline_call(c, name, args) ==
    LET n == Len(args)
    IN  CASE name \in {"null", "not", "first", "tail", "init", "last"} /\ n = 1 ->
                [c |-> Sched(c, <<TValue(args[1]), TInstr(I0(UnaryInline(name)))>>),
                 r |-> TRUE]
          [] name = "=" /\ n = 2 ->
                [c |-> InlineCompare(c, args, "Eq", "EqConst"), r |-> TRUE]
          [] name = "/=" /\ n = 2 ->
                [c |-> InlineCompare(c, args, "NotEq", "NotEqConst"), r |-> TRUE]
          [] name = "inf" /\ n = 0 ->
                [c |-> load_const_value(c, VFloat("inf")), r |-> TRUE]
          [] name = "nan" /\ n = 0 ->
                [c |-> load_const_value(c, VFloat("nan")), r |-> TRUE]
          [] name = "append" /\ n = 2 ->
                [c |-> Sched(c, <<TValue(args[1]), TInstr(I0("Push")),
                                  TValue(args[2]), TInstr(I0("Append"))>>),
                 r |-> TRUE]
          [] name = "list" ->
                [c |-> IF n = 0 THEN push_instruction(c, I0("Unit"))
                       ELSE Sched(c, PushEach(args) \o <<TInstr(I1("List", n))>>),
                 r |-> TRUE]
          [] name = "id" /\ n = 1 ->
                [c |-> Sched(c, <<TValue(args[1])>>), r |-> TRUE]
          [] OTHER -> [c |-> c, r |-> FALSE]

\* compile_operator: the arity check, then the operator's callback
compile_operator(c, name, args) ==
    IF ~accepts(OperatorArity(name), Len(args)) THEN Fail(c, ArityError(name))
    ELSE Sched(c, <<TOp(name, 0, args, <<>>)>>)

\* is (name args...) expanded as a macro by this compiler
IsMacroCall(c, outer, sc, v) ==
    /\ v.t = "list"
    /\ v.li[1].t = "name"
    /\ ~load_local_name(c, outer, v.li[1].n).r
    /\ ~(c.self_name # NoName /\ c.self_name = v.li[1].n)
    /\ is_macro(sc, v.li[1].n)

\* a compile_value that tries the system operators before the bindings
CompileNamedCall_OperatorFirst(c, outer, li) ==
    LET name == li[1].n
        args == Tail(li)
        l == load_local_name(c, outer, name)
        inl == inline_call(c, name, args)
    IN  IF is_system_operator(name) THEN compile_operator(c, name, args)
        ELSE IF l.r
        THEN Sched(push_instruction(l.c, I0("Push")), PushEach(args) \o <<TCall(li, TRUE)>>)
        ELSE IF c.self_name # NoName /\ c.self_name = name
        THEN Sched(c, PushEach(args) \o <<TCall(li, FALSE)>>)
        ELSE IF inl.r THEN inl.c
        ELSE Sched(c, PushEach(args) \o <<TCall(li, FALSE)>>)

\* compile_value of a list whose first element is a name
CompileNamedCall(c, outer, li) ==
    LET name == li[1].n
        args == Tail(li)
        l == load_local_name(c, outer, name)
        inl == inline_call(c, name, args)
    IN  IF l.r
        THEN Sched(push_instruction(l.c, I0("Push")), PushEach(args) \o <<TCall(li, TRUE)>>)
        ELSE IF c.self_name # NoName /\ c.self_name = name
        THEN Sched(c, PushEach(args) \o <<TCall(li, FALSE)>>)
        ELSE IF is_system_operator(name) THEN compile_operator(c, name, args)
        ELSE IF inl.r THEN inl.c
        ELSE Sched(c, PushEach(args) \o <<TCall(li, FALSE)>>)

\* compile_value, but for the macro branch (ExpandMacro)
compile_value(c, outer, v) ==
    CASE v.t = "name" ->
            LET l == load_local_name(c, outer, v.n)
                k == add_const(c, v)
            IN  IF l.r THEN l.c ELSE push_instruction(k.c, I1("GetDef", k.r))
      [] v.t = "list" ->
            CASE v.li[1].t = "name" -> CompileNamedCall(c, outer, v.li)
              [] v.li[1].t = "list" ->
                    Sched(c, <<TValue(v.li[1]), TInstr(I0("Push"))>>
                             \o PushEach(Tail(v.li)) \o <<TCall(v.li, TRUE)>>)
              [] OTHER -> Fail(c, InvalidCallExpression)
      [] v.t \in {"comma", "comma-at"} -> Fail(c, UnbalancedComma)
      [] v.t = "quasiquote" -> Sched(c, <<TQuasi(v, 0)>>)
      [] OTHER -> load_const_value(c, v)

\* the macro branch of compile_value: count the expansion, expand_macro,
\* then compile the expansion and count back
expand_macro_Unchecked(c, sc, name, args) ==
    LET e == execute_lambda(get_macro(sc, name), args)
    IN  IF e.ok THEN [ok |-> TRUE, v |-> e.v, err |-> NoErr]
        ELSE [ok |-> FALSE, v |-> VUnit, err |-> ExecError]

expand_macro(c, sc, name, args) ==
    IF c.macro_recursion >= MAX_MACRO_RECURSION
    THEN [ok |-> FALSE, v |-> VUnit, err |-> MacroRecursionExceeded]
    ELSE expand_macro_Unchecked(c, sc, name, args)

CompileMacroCall(c, sc, v) ==
    LET counted == [c EXCEPT !.macro_recursion = @ + 1]
        e == expand_macro(counted, sc, v.li[1].n, Tail(v.li))
    IN  IF e.ok THEN Sched(counted, <<TValue(e.v), TUnmacro>>)
        ELSE Fail(counted, e.err)

\* the call instruction chosen without a look at self_name
CompileCall_NoSelf(c, li, pushed_fn) ==
    LET n_args == Len(li) - 1
        name == li[1].n
        sys_fn == get_system_fn(name)
        k == add_const(c, VName(name))
    IN  IF pushed_fn THEN push_instruction(c, I1("Call", n_args))
        ELSE IF sys_fn # NoArity
        THEN IF ~accepts(sys_fn, n_args) THEN Fail(c, ArityError(name))
             ELSE write_call_sys(c, name, sys_fn, n_args)
        ELSE push_instruction(k.c, I2("CallConst", k.r, n_args))

\* the end of compile_value for a call: the call instruction
CompileCall(c, li, pushed_fn) ==
    LET n_args == Len(li) - 1
        name == li[1].n
        sys_fn == get_system_fn(name)
        k == add_const(c, VName(name))
    IN  IF pushed_fn THEN push_instruction(c, I1("Call", n_args))
        ELSE IF c.self_name # NoName /\ c.self_name = name
        THEN push_instruction(c, I1("CallSelf", n_args))
        ELSE IF sys_fn # NoArity
        THEN IF ~accepts(sys_fn, n_args) THEN Fail(c, ArityError(name))
             ELSE write_call_sys(c, name, sys_fn, n_args)
        ELSE push_instruction(k.c, I2("CallConst", k.r, n_args))

-----------------------------------------------------------------------------
(* compile(scope, value): the actions *)

\* Code, as compile and compile_lambda build it; short is the operand
\* width assemble_code chose
Code(name, asm, consts, kw_params, n_params, req_params, flags) ==
    [name |-> name, code |-> asm.code, short |-> asm.short, consts |-> consts,
     kw_params |-> kw_params, n_params |-> n_params, req_params |-> req_params,
     flags |-> flags]

NoCode ==
    [name |-> NoName, code |-> <<>>, short |-> TRUE, consts |-> <<>>,
     kw_params |-> <<>>, n_params |-> 0, req_params |-> 0, flags |-> 0]

NoResult == [ok |-> FALSE, code |-> NoCode, err |-> NoErr]

\* no compile call is made: the state of the compiler in the registry's runs
CompilerIdle ==
    /\ scope = [values |-> <<>>, macros |-> <<>>, exports |-> <<>>, has_exports |-> FALSE]
    /\ expr = VUnit
    /\ comps = <<>>
    /\ cstate = "off"
    /\ cresult = NoResult

Cur == comps[Len(comps)]
Outer == SubSeq(comps, 1, Len(comps) - 1)
Running(k) ==
    /\ cstate = "running"
    /\ comps # <<>>
    /\ Cur.tasks # <<>>
    /\ Cur.tasks[1].k = k
CurTask == Cur.tasks[1]
Rest == [Cur EXCEPT !.tasks = Tail(@)]

\* the current compiler went on to c; an Err ends the whole compile call
Commit(c) ==
    /\ comps' = [comps EXCEPT ![Len(comps)] = c]
    /\ cstate' = IF Failed(c) THEN "failed" ELSE cstate
    /\ cresult' = IF Failed(c) THEN [NoResult EXCEPT !.err = c.err] ELSE cresult

RECURSIVE TotalNesting(_)
TotalNesting(cs) ==
    IF cs = <<>> THEN 0 ELSE cs[1].macro_recursion + TotalNesting(Tail(cs))

\* compile(scope, value) is called: Compiler::new(scope).compile(value)
Compile ==
    /\ cstate = "idle"
    /\ comps' = <<Sched(with_outer(NoName), <<TValue(expr), TAssemble>>)>>
    /\ cstate' = "running"
    /\ UNCHANGED <<scope, expr, cresult>>
    /\ UNCHANGED rvars

CompileValue ==
    /\ Running("value")
    /\ ~IsMacroCall(Rest, Outer, scope, CurTask.args[1])
    /\ Commit(compile_value(Rest, Outer, CurTask.args[1]))
    /\ UNCHANGED <<scope, expr>>
    /\ UNCHANGED rvars

ExpandMacro ==
    /\ Running("value")
    /\ IsMacroCall(Rest, Outer, scope, CurTask.args[1])
    /\ TotalNesting(comps) < MaxNesting
    /\ Commit(CompileMacroCall(Rest, scope, CurTask.args[1]))
    /\ UNCHANGED <<scope, expr>>
    /\ UNCHANGED rvars

\* the expansion is compiled: macro_recursion -= 1
MacroReturn ==
    /\ Running("unmacro")
    /\ Commit([Rest EXCEPT !.macro_recursion = @ - 1])
    /\ UNCHANGED <<scope, expr>>
    /\ UNCHANGED rvars

PushInstruction ==
    /\ Running("instr")
    /\ LET k == add_const_value(Rest, CurTask.args[1])
       IN  IF CurTask.args = <<>>
           THEN Commit(push_instruction(Rest, CurTask.instr))
           ELSE Commit(push_instruction(k.c, [CurTask.instr EXCEPT !.a = k.r]))
    /\ UNCHANGED <<scope, expr>>
    /\ UNCHANGED rvars

CallFunction ==
    /\ Running("call")
    /\ Commit(CompileCall(Rest, CurTask.args, CurTask.loc[1] = 1))
    /\ UNCHANGED <<scope, expr>>
    /\ UNCHANGED rvars

\* Compiler::compile: the expression is compiled, assemble_code
AssembleCode ==
    /\ Running("assemble")
    /\ Len(comps) = 1
    /\ \E asm \in {assemble_code(Cur.blocks)} :
           IF asm.hangs
           THEN /\ cstate' = "hangs"
                /\ UNCHANGED <<comps, cresult>>
           ELSE IF asm.panic
           THEN Commit(Fail(Rest, Panic("jump to dead block")))
           ELSE IF asm.overflow
           THEN Commit(Fail(Rest, OperandOverflow))
           ELSE /\ cstate' = "done"
                /\ cresult' = [ok |-> TRUE, err |-> NoErr,
                               code |-> Code(NoName, asm, Cur.consts, <<>>, 0, 0, 0)]
                /\ comps' = <<>>
    /\ UNCHANGED <<scope, expr>>
    /\ UNCHANGED rvars

-----------------------------------------------------------------------------
(* The system operators *)

get_name_ok(v) == v.t = "name"

op_do(c, t) == Sched(c, ValueEach(t.args))

op_apply(c, t) ==
    LET n == Len(t.args)
    IN  Sched(c, PushEach(SubSeq(t.args, 1, n - 1))
                 \o <<TValue(t.args[n]), TInstr(I1("Apply", n - 2))>>)

\* op_let. Stage 1 is the head of the loop over the bindings, at binding
\* loc[1]; stage 2 follows a binding's compile_value; stage 3 the body's.
op_let(c, t) ==
    LET binds == t.args[1]
        k == t.loc[1]
        b == binds.li[k]
        n_vars == IF binds.t = "list" THEN Len(binds.li) ELSE 0
        body == <<TValue(t.args[2]), TOp("let", 3, t.args, <<n_vars>>)>>
        nb == new_block(c)
    IN  CASE t.st = 0 ->
                IF binds.t = "unit" THEN Sched(c, body)
                ELSE IF binds.t = "list" THEN Sched(c, <<TOp("let", 1, t.args, <<1>>)>>)
                ELSE Fail(c, SyntaxError)
          [] t.st = 1 ->
                IF k > Len(binds.li) THEN Sched(c, body)
                ELSE IF b.t = "list" /\ Len(b.li) = 2 /\ get_name_ok(b.li[1])
                THEN Sched(c, <<TValue(b.li[2]), TOp("let", 2, t.args, <<k>>)>>)
                ELSE Fail(c, SyntaxError)
          [] t.st = 2 ->
                Sched(push_instruction(push_var(c, b.li[1].n), I0("Push")),
                      <<TOp("let", 1, t.args, <<k + 1>>)>>)
          [] OTHER ->
                pop_vars(push_instruction(use_next(nb.c, nb.r), I1("Skip", t.loc[1])),
                         t.loc[1])

\* op_if that jumps to the else branch when the condition holds
op_if_JumpIf(c, t) ==
    LET b1 == new_block(c)
        b2 == new_block(b1.c)
        b3 == new_block(b2.c)
        then_block == t.loc[1]
        else_block == t.loc[2]
        final_block == t.loc[3]
    IN  CASE t.st = 0 ->
                Sched(b3.c, <<TValue(t.args[1]), TOp("if", 1, t.args, <<b1.r, b2.r, b3.r>>)>>)
          [] t.st = 1 ->
                Sched(use_next(JumpTo(c, "JumpIf", 0, else_block), then_block),
                      <<TValue(t.args[2]), TOp("if", 2, t.args, t.loc)>>)
          [] t.st = 2 ->
                LET e == use_next(JumpTo(c, "Jump", 0, final_block), else_block)
                IN  IF Len(t.args) = 3
                    THEN Sched(e, <<TValue(t.args[3]), TOp("if", 3, t.args, t.loc)>>)
                    ELSE use_next(push_instruction(e, I0("Unit")), final_block)
          [] OTHER -> use_next(c, final_block)

\* op_if. loc holds then_block, else_block, final_block.
op_if(c, t) ==
    LET b1 == new_block(c)
        b2 == new_block(b1.c)
        b3 == new_block(b2.c)
        then_block == t.loc[1]
        else_block == t.loc[2]
        final_block == t.loc[3]
    IN  CASE t.st = 0 ->
                Sched(b3.c, <<TValue(t.args[1]), TOp("if", 1, t.args, <<b1.r, b2.r, b3.r>>)>>)
          [] t.st = 1 ->
                Sched(use_next(JumpTo(c, "JumpIfNot", 0, else_block), then_block),
                      <<TValue(t.args[2]), TOp("if", 2, t.args, t.loc)>>)
          [] t.st = 2 ->
                LET e == use_next(JumpTo(c, "Jump", 0, final_block), else_block)
                IN  IF Len(t.args) = 3
                    THEN Sched(e, <<TValue(t.args[3]), TOp("if", 3, t.args, t.loc)>>)
                    ELSE use_next(push_instruction(e, I0("Unit")), final_block)
          [] OTHER -> use_next(c, final_block)

\* op_and and op_or, which differ in the jump. Stage 1 follows the
\* compile_value of argument loc[1]; loc[2] is last_block.
ShortCircuit(c, t, jump) ==
    LET n == Len(t.args)
        lb == new_block(c)
        arg(k, last_block) ==
            IF k < n
            THEN <<TValue(t.args[k]), TOp(t.name, 1, t.args, <<k, last_block>>)>>
            ELSE <<TValue(t.args[n]), TOp(t.name, 2, t.args, <<k, last_block>>)>>
        jumped == JumpTo(flush_instructions(c), jump, 0, t.loc[2])
        block == new_block(jumped)
    IN  CASE t.st = 0 -> Sched(lb.c, arg(1, lb.r))
          [] t.st = 1 -> Sched(use_next(block.c, block.r), arg(t.loc[1] + 1, t.loc[2]))
          [] OTHER -> use_next(c, t.loc[2])

op_and(c, t) == ShortCircuit(c, t, "JumpIfNot")
op_or(c, t) == ShortCircuit(c, t, "JumpIf")

IsOp(name) == Running("op") /\ CurTask.name = name

OpDo ==
    /\ IsOp("do")
    /\ Commit(op_do(Rest, CurTask))
    /\ UNCHANGED <<scope, expr>>
    /\ UNCHANGED rvars

OpApply ==
    /\ IsOp("apply")
    /\ Commit(op_apply(Rest, CurTask))
    /\ UNCHANGED <<scope, expr>>
    /\ UNCHANGED rvars

OpLet ==
    /\ IsOp("let")
    /\ Commit(op_let(Rest, CurTask))
    /\ UNCHANGED <<scope, expr>>
    /\ UNCHANGED rvars

OpIf ==
    /\ IsOp("if")
    /\ Commit(op_if(Rest, CurTask))
    /\ UNCHANGED <<scope, expr>>
    /\ UNCHANGED rvars

OpAnd ==
    /\ IsOp("and")
    /\ Commit(op_and(Rest, CurTask))
    /\ UNCHANGED <<scope, expr>>
    /\ UNCHANGED rvars

OpOr ==
    /\ IsOp("or")
    /\ Commit(op_or(Rest, CurTask))
    /\ UNCHANGED <<scope, expr>>
    /\ UNCHANGED rvars


\* the jumps op_case emits for the literals of a pattern list, each
\* followed by a new block
RECURSIVE CasePatterns(_, _, _)
CasePatterns(c, pats, code_begin) ==
    IF pats = <<>> THEN c
    ELSE LET v == pats[1]
             k == add_const(c, v)
             jumped ==
                 CASE v.t = "unit" -> JumpTo(c, "JumpIfNull", 0, code_begin)
                   [] v.t = "bool" /\ v.b -> JumpTo(c, "JumpIf", 0, code_begin)
                   [] v.t = "bool" /\ ~v.b -> JumpTo(c, "JumpIfNot", 0, code_begin)
                   [] OTHER -> JumpTo(k.c, "JumpIfEqConst", k.r, code_begin)
             b == new_block(jumped)
         IN  CasePatterns(use_next(b.c, b.r), Tail(pats), code_begin)

\* the end of op_case and op_cond: link the clause bodies after the
\* dispatch chain, in order, and go on in final_block
RECURSIVE StitchBlocks(_, _)
StitchBlocks(c, code_blocks) ==
    IF code_blocks = <<>> THEN c
    ELSE StitchBlocks(
            use_block(SetCurrentBlock(c, set_next(current_block(c), code_blocks[1])),
                      code_blocks[2]),
            SubSeq(code_blocks, 3, Len(code_blocks)))

\* locals of op_case and op_cond in a task: final_block, the index of the
\* clause, else_case, prev_block, code_begin, then code_blocks
ClauseLoc(final_block, k, else_case, prev_block, code_begin, code_blocks) ==
    <<final_block, k, IF else_case THEN 1 ELSE 0, prev_block, code_begin>> \o code_blocks

\* after all clauses
ClausesEnd(c, t) ==
    LET final_block == t.loc[1]
        closed == IF t.loc[3] = 1 THEN c
                  ELSE JumpTo(push_instruction(c, I0("Unit")), "Jump", 0, final_block)
    IN  use_next(StitchBlocks(closed, SubSeq(t.loc, 6, Len(t.loc))), final_block)

\* the end of a clause that does not keep else_case
ClauseBodyEnd_Forgets(c, t) ==
    LET jumped == JumpTo(c, "Jump", 0, t.loc[1])
        code_end == c.cur_block
        b == new_block(jumped)
    IN  Sched(use_next(use_block(b.c, t.loc[4]), b.r),
              <<TOp(t.name, 1, t.args,
                    ClauseLoc(t.loc[1], t.loc[2] + 1, FALSE, 0, 0,
                              SubSeq(t.loc, 6, Len(t.loc)) \o <<t.loc[5], code_end>>))>>)

\* after the compile_value of a clause's body
ClauseBodyEnd(c, t) ==
    LET jumped == JumpTo(c, "Jump", 0, t.loc[1])
        code_end == c.cur_block
        b == new_block(jumped)
    IN  Sched(use_next(use_block(b.c, t.loc[4]), b.r),
              <<TOp(t.name, 1, t.args,
                    ClauseLoc(t.loc[1], t.loc[2] + 1, t.loc[3] = 1, 0, 0,
                              SubSeq(t.loc, 6, Len(t.loc)) \o <<t.loc[5], code_end>>))>>)

\* prev_block = cur_block; use_block(code_begin); compile_value(code)
ClauseBody(c, t, else_case, code_begin, code, st) ==
    Sched(use_block(c, code_begin),
          <<TValue(code),
            TOp(t.name, st, t.args,
                ClauseLoc(t.loc[1], t.loc[2], else_case, c.cur_block, code_begin,
                          SubSeq(t.loc, 6, Len(t.loc))))>>)

\* op_case. Stage 1 is the head of the loop over the clauses, stage 2
\* follows the compile_value of a clause's body.
op_case(c, t) ==
    LET fb == new_block(c)
        k == t.loc[2]
        clause == t.args[k]
        pat == clause.li[1]
        cb == new_block(c)
    IN  CASE t.st = 0 ->
                Sched(fb.c, <<TValue(t.args[1]),
                              TOp("case", 1, t.args, ClauseLoc(fb.r, 2, FALSE, 0, 0, <<>>))>>)
          [] t.st = 1 /\ k > Len(t.args) -> ClausesEnd(c, t)
          [] t.st = 1 /\ k <= Len(t.args) ->
                IF t.loc[3] = 1 THEN Fail(c, SyntaxErrorOf("unreachable case"))
                ELSE IF ~(clause.t = "list" /\ Len(clause.li) = 2)
                THEN Fail(c, SyntaxErrorOf("expected list of 2 elements"))
                ELSE IF pat.t = "list"
                THEN ClauseBody(CasePatterns(cb.c, pat.li, cb.r), t, FALSE, cb.r,
                                clause.li[2], 2)
                ELSE IF pat = VName("else")
                THEN ClauseBody(JumpTo(cb.c, "Jump", 0, cb.r), t, TRUE, cb.r,
                                clause.li[2], 2)
                ELSE Fail(cb.c, SyntaxErrorOf("expected list or else"))
          [] OTHER -> ClauseBodyEnd(c, t)

\* op_cond. Stage 1 is the head of the loop, stage 2 follows the
\* compile_value of a condition, stage 3 that of a clause's body.
op_cond(c, t) ==
    LET fb == new_block(c)
        k == t.loc[2]
        clause == t.args[k]
        cb == new_block(c)
    IN  CASE t.st = 0 ->
                Sched(fb.c, <<TOp("cond", 1, t.args, ClauseLoc(fb.r, 1, FALSE, 0, 0, <<>>))>>)
          [] t.st = 1 /\ k > Len(t.args) -> ClausesEnd(c, t)
          [] t.st = 1 /\ k <= Len(t.args) ->
                IF t.loc[3] = 1 THEN Fail(c, SyntaxErrorOf("unreachable condition"))
                ELSE IF ~(clause.t = "list" /\ Len(clause.li) = 2)
                THEN Fail(c, SyntaxErrorOf("expected list of 2 elements"))
                ELSE IF clause.li[1] = VName("else")
                THEN ClauseBody(JumpTo(cb.c, "Jump", 0, cb.r), t, TRUE, cb.r,
                                clause.li[2], 3)
                ELSE Sched(cb.c, <<TValue(clause.li[1]),
                                   TOp("cond", 2, t.args,
                                       ClauseLoc(t.loc[1], k, FALSE, 0, cb.r,
                                                 SubSeq(t.loc, 6, Len(t.loc))))>>)
          [] t.st = 2 ->
                ClauseBody(JumpTo(c, "JumpIf", 0, t.loc[5]), t, FALSE, t.loc[5],
                           clause.li[2], 3)
          [] OTHER -> ClauseBodyEnd(c, t)

OpCase ==
    /\ IsOp("case")
    /\ Commit(op_case(Rest, CurTask))
    /\ UNCHANGED <<scope, expr>>
    /\ UNCHANGED rvars

OpCond ==
    /\ IsOp("cond")
    /\ Commit(op_cond(Rest, CurTask))
    /\ UNCHANGED <<scope, expr>>
    /\ UNCHANGED rvars

-----------------------------------------------------------------------------
(* Lambdas: make_lambda, compile_lambda, and the operators that use them *)

Param(name, has_default, default) ==
    [name |-> name, has_default |-> has_default, default |-> default]

ParseStart ==
    [params |-> <<>>, req_params |-> 0, kw_params |-> <<>>, key |-> FALSE,
     optional |-> FALSE, rest |-> NoName, err |-> NoErr, stop |-> FALSE]

HasParam(ps, name) ==
    \/ \E k \in 1..Len(ps.params) : ps.params[k].name = name
    \/ \E k \in 1..Len(ps.kw_params) : ps.kw_params[k].name = name

AddParam(ps, p) ==
    IF HasParam(ps, p.name) THEN [ps EXCEPT !.err = DuplicateParameter(p.name)]
    ELSE IF ps.key THEN [ps EXCEPT !.kw_params = Append(@, p)]
    ELSE [ps EXCEPT !.params = Append(@, p)]

\* the loop of make_lambda over the parameter list, from args[k] on
RECURSIVE ParseParams(_, _, _)
ParseParams(ps, args, k) ==
    LET v == args[k]
        bad == [ps EXCEPT !.err = SyntaxError]
    IN  IF k > Len(args) \/ ps.err # NoErr \/ ps.stop THEN ps
        ELSE CASE v.t = "name" ->
                    ParseParams(AddParam(ps, Param(v.n, FALSE, VUnit)), args, k + 1)
               [] v.t = "keyword" /\ v.n = "key" ->
                    IF ps.key \/ ps.optional THEN bad
                    ELSE ParseParams([ps EXCEPT !.key = TRUE,
                                                !.req_params = Len(ps.params)],
                                     args, k + 1)
               [] v.t = "keyword" /\ v.n = "optional" ->
                    IF ps.optional \/ ps.key THEN bad
                    ELSE ParseParams([ps EXCEPT !.optional = TRUE,
                                                !.req_params = Len(ps.params)],
                                     args, k + 1)
               [] v.t = "keyword" /\ v.n = "rest" ->
                    IF ps.key \/ k + 1 > Len(args) THEN bad
                    ELSE IF ~get_name_ok(args[k + 1]) THEN bad
                    ELSE IF k + 2 <= Len(args) THEN bad
                    ELSE [ps EXCEPT !.rest = args[k + 1].n, !.stop = TRUE]
               [] v.t = "list" /\ Len(v.li) = 2 ->
                    IF ~get_name_ok(v.li[1]) THEN bad
                    ELSE ParseParams(AddParam(ps, Param(v.li[1].n, TRUE, v.li[2])),
                                     args, k + 1)
               [] OTHER -> bad

\* make_lambda up to its call of compile_lambda: the parameters, or the Err
make_lambda(args) ==
    LET ps == ParseParams(ParseStart, args, 1)
        fixed == IF ps.optional THEN ps ELSE [ps EXCEPT !.req_params = Len(ps.params)]
    IN  IF ps.err # NoErr THEN ps
        ELSE IF fixed.key /\ fixed.kw_params = <<>> THEN [fixed EXCEPT !.err = SyntaxError]
        ELSE IF fixed.optional /\ fixed.req_params = Len(fixed.params)
        THEN [fixed EXCEPT !.err = SyntaxError]
        ELSE fixed

\* make_lambda(compiler, name, params, body), called by an operator
TMakeLambda(name, params, body) ==
    Task("make_lambda", name, 0, <<body>> \o params, <<>>, <<>>, NoInstr)
\* compile_lambda at parameter st (from 0); loc holds final_block after
\* the compile_value of branch_if_unbound
TParam(st, loc) == Task("param", "", st, <<>>, loc, <<>>, NoInstr)

TotalParams(ps) ==
    Len(ps.params) + Len(ps.kw_params) + (IF ps.rest # NoName THEN 1 ELSE 0)

\* compile_lambda's compiler, with the dummy names on its stack
LambdaCompiler(name, ps, body) ==
    [with_outer(name) EXCEPT
        !.stack = [n \in 1..TotalParams(ps) |-> <<DummyName, n - 1>>],
        !.stack_offset = TotalParams(ps),
        !.lam = [params |-> ps.params, req_params |-> ps.req_params,
                 kw_params |-> ps.kw_params, rest |-> ps.rest, body |-> body],
        !.tasks = <<TParam(0, <<>>)>>]

HAS_NAME == 1
HAS_KW_PARAMS == 2
HAS_REST_PARAMS == 4

LambdaFlags(c) ==
    (IF c.self_name # NoName THEN HAS_NAME ELSE 0)
    + (IF c.lam.kw_params # <<>> THEN HAS_KW_PARAMS
       ELSE IF c.lam.rest # NoName THEN HAS_REST_PARAMS ELSE 0)

\* compile_lambda that names a parameter's slot before its default is compiled
compile_lambda_NamesFirst(c, t) ==
    LET all == c.lam.params \o c.lam.kw_params
        i == t.st
        p == all[i + 1]
        optional == i >= Len(c.lam.params) \/ i >= c.lam.req_params
        named(d) == [d EXCEPT !.stack[i + 1] = <<p.name, @[2]>>]
        bind_block == new_block(c)
        final_block == new_block(bind_block.c)
        rested == IF c.lam.rest = NoName THEN c
                  ELSE [c EXCEPT !.stack[Len(c.stack)] = <<c.lam.rest, @[2]>>]
    IN  IF i >= Len(all) THEN Sched(rested, <<TValue(c.lam.body), TAssemble>>)
        ELSE IF t.loc # <<>>
        THEN Sched(named(use_next(c, t.loc[1])), <<TParam(i + 1, <<>>)>>)
        ELSE IF optional /\ p.has_default
        THEN Sched(named(use_next(JumpTo(final_block.c, "JumpIfBound", i, final_block.r),
                                  bind_block.r)),
                   <<TValue(p.default), TInstr(I1("Store", i)),
                     TParam(i, <<final_block.r>>)>>)
        ELSE IF optional
        THEN Sched(named(push_instruction(c, I1("UnboundToUnit", i))),
                   <<TParam(i + 1, <<>>)>>)
        ELSE Sched(named(c), <<TParam(i + 1, <<>>)>>)

\* compile_lambda: the loops over params and kw_params, then the body
compile_lambda(c, t) ==
    LET all == c.lam.params \o c.lam.kw_params
        i == t.st
        p == all[i + 1]
        optional == i >= Len(c.lam.params) \/ i >= c.lam.req_params
        named(d) == [d EXCEPT !.stack[i + 1] = <<p.name, @[2]>>]
        bind_block == new_block(c)
        final_block == new_block(bind_block.c)
        rested == IF c.lam.rest = NoName THEN c
                  ELSE [c EXCEPT !.stack[Len(c.stack)] = <<c.lam.rest, @[2]>>]
    IN  IF i >= Len(all) THEN Sched(rested, <<TValue(c.lam.body), TAssemble>>)
        ELSE IF t.loc # <<>>
        THEN Sched(named(use_next(c, t.loc[1])), <<TParam(i + 1, <<>>)>>)
        ELSE IF optional /\ p.has_default
        THEN Sched(use_next(JumpTo(final_block.c, "JumpIfBound", i, final_block.r),
                            bind_block.r),
                   <<TValue(p.default), TInstr(I1("Store", i)),
                     TParam(i, <<final_block.r>>)>>)
        ELSE IF optional
        THEN Sched(named(push_instruction(c, I1("UnboundToUnit", i))),
                   <<TParam(i + 1, <<>>)>>)
        ELSE Sched(named(c), <<TParam(i + 1, <<>>)>>)

RECURSIVE ParamNames(_)
ParamNames(ps) == IF ps = <<>> THEN <<>> ELSE <<ps[1].name>> \o ParamNames(Tail(ps))

MakeLambda ==
    /\ Running("make_lambda")
    /\ LET ps == make_lambda(Tail(CurTask.args))
       IN  IF ps.err # NoErr THEN Commit(Fail(Rest, ps.err))
           ELSE /\ comps' = [comps EXCEPT ![Len(comps)] = Rest]
                            \o <<LambdaCompiler(CurTask.name, ps, CurTask.args[1])>>
                /\ UNCHANGED <<cstate, cresult>>
    /\ UNCHANGED <<scope, expr>>
    /\ UNCHANGED rvars

CompileLambda ==
    /\ Running("param")
    /\ Commit(compile_lambda(Rest, CurTask))
    /\ UNCHANGED <<scope, expr>>
    /\ UNCHANGED rvars

\* the Code compile_lambda returns
LambdaCode(c, asm) ==
    Code(c.self_name, asm, c.consts, ParamNames(c.lam.kw_params),
         Len(c.lam.params), c.lam.req_params, LambdaFlags(c))

\* (code, captures) goes back to the operator that called make_lambda
LambdaReturn(parent, code, captures) ==
    [parent EXCEPT !.tasks[1].args = @ \o <<VLambda(code)>>,
                   !.tasks[1].names = captures]

\* compile_lambda: the body is compiled, assemble_code, and the result is
\* returned
AssembleLambda ==
    /\ Running("assemble")
    /\ Len(comps) > 1
    /\ \E asm \in {assemble_code(Cur.blocks)} :
           IF asm.hangs
           THEN /\ cstate' = "hangs"
                /\ UNCHANGED <<comps, cresult>>
           ELSE IF asm.panic
           THEN Commit(Fail(Rest, Panic("jump to dead block")))
           ELSE IF asm.overflow
           THEN Commit(Fail(Rest, OperandOverflow))
           ELSE /\ comps' = SubSeq(comps, 1, Len(comps) - 2)
                            \o <<LambdaReturn(comps[Len(comps) - 1], LambdaCode(Cur, asm),
                                               Cur.captures)>>
                /\ UNCHANGED <<cstate, cresult>>
    /\ UNCHANGED <<scope, expr>>
    /\ UNCHANGED rvars

-----------------------------------------------------------------------------
(* define, macro, struct, lambda, export *)

\* MasterScope::can_define: system operators cannot be redefined
can_define(name) == ~is_system_operator(name)

test_define_name(name) == IF can_define(name) THEN NoErr ELSE CannotDefine(name)

\* op_define. Stage 1 goes on after make_lambda, with the lambda in args[3],
\* its captures in names and the index of the name's constant in loc
op_define(c, outer, t) ==
    LET target == t.args[1]
        name == IF target.t = "name" THEN target.n ELSE target.li[1].n
        k == add_const(c, VName(name))
        code_c == add_const(c, t.args[3])
    IN  CASE t.st = 0 /\ target.t = "name" ->
                IF test_define_name(name) # NoErr THEN Fail(c, test_define_name(name))
                ELSE Sched(c, <<TValue(t.args[2]), TConstInstr("SetDef", VName(name))>>)
          [] t.st = 0 /\ target.t = "list" ->
                IF ~get_name_ok(target.li[1]) THEN Fail(c, SyntaxError)
                ELSE IF test_define_name(name) # NoErr
                THEN Fail(c, test_define_name(name))
                ELSE Sched(k.c, <<TMakeLambda(name, Tail(target.li), t.args[2]),
                                  TOp("define", 1, t.args, <<k.r>>)>>)
          [] t.st = 0 -> Fail(c, SyntaxError)
          [] OTHER ->
                push_instruction(load_lambda(code_c.c, outer, code_c.r, t.names),
                                 I1("SetDef", t.loc[1]))

\* op_macro up to make_lambda (stage 0) and after it (stage 1)
op_macro(c, t) ==
    LET target == t.args[1]
        name == target.li[1].n
        k == add_const(c, VName(name))
    IN  CASE t.st = 0 ->
                IF target.t # "list" THEN Fail(c, SyntaxError)
                ELSE IF ~get_name_ok(target.li[1]) THEN Fail(c, SyntaxError)
                ELSE IF test_define_name(name) # NoErr
                THEN Fail(c, test_define_name(name))
                ELSE Sched(c, <<TMakeLambda(name, Tail(target.li), t.args[2]),
                                TOp("macro", 1, t.args, <<>>)>>)
          [] OTHER ->
                IF t.names # <<>> THEN Fail(c, SyntaxError)
                ELSE push_instruction(k.c, I1("Const", k.r))

VStructDef(name, fields) == [t |-> "struct-def", n |-> name, li |-> fields]

RECURSIVE StructFields(_)
StructFields(li) ==
    IF li = <<>> THEN [ok |-> TRUE, fields |-> <<>>]
    ELSE LET v == li[1]
             rest == StructFields(Tail(li))
         IN  IF v.t = "list" /\ Len(v.li) = 2 /\ get_name_ok(v.li[1])
                /\ get_name_ok(v.li[2]) /\ rest.ok
             THEN [ok |-> TRUE,
                   fields |-> <<<<v.li[1].n, v.li[2].n>>>>
                              \o SelectSeq(rest.fields, LAMBDA f : f[1] # v.li[1].n)]
             ELSE [ok |-> FALSE, fields |-> <<>>]

op_struct(c, t) ==
    LET name == t.args[1].n
        fs == IF t.args[2].t = "list" THEN StructFields(t.args[2].li)
              ELSE [ok |-> t.args[2].t = "unit", fields |-> <<>>]
        name_c == add_const(c, VName(name))
        def == add_const(name_c.c, VStructDef(name, fs.fields))
    IN  IF ~get_name_ok(t.args[1]) THEN Fail(c, SyntaxError)
        ELSE IF test_define_name(name) # NoErr THEN Fail(c, test_define_name(name))
        ELSE IF ~fs.ok THEN Fail(c, SyntaxError)
        ELSE push_instruction(push_instruction(def.c, I1("Const", def.r)),
                              I1("SetDef", name_c.r))

op_lambda(c, outer, t) ==
    LET params == IF t.args[1].t = "list" THEN t.args[1].li ELSE <<>>
        k == add_const(c, t.args[3])
    IN  CASE t.st = 0 ->
                IF t.args[1].t \notin {"unit", "list"} THEN Fail(c, SyntaxError)
                ELSE Sched(c, <<TMakeLambda(NoName, params, t.args[2]),
                                TOp("lambda", 1, t.args, <<>>)>>)
          [] OTHER -> load_lambda(k.c, outer, k.r, t.names)

\* the names of a NameSet, each once
RECURSIVE NameSetOf(_)
NameSetOf(li) ==
    IF li = <<>> THEN <<>>
    ELSE <<li[1].n>> \o SelectSeq(NameSetOf(Tail(li)), LAMBDA n : n # li[1].n)

set_exports(sc, names) == [sc EXCEPT !.exports = names, !.has_exports = TRUE]

\* op_export: the Err or Ok of the callback, on the compiler
op_export(c, sc, t) ==
    LET li == IF t.args[1].t = "list" THEN t.args[1].li ELSE <<>>
    IN  IF sc.has_exports THEN Fail(c, DuplicateExports)
        ELSE IF t.args[1].t \notin {"unit", "list"} THEN Fail(c, SyntaxError)
        ELSE IF \E k \in 1..Len(li) : ~get_name_ok(li[k]) THEN Fail(c, SyntaxError)
        ELSE push_instruction(c, I0("Unit"))

\* the values of a scope: add_value binds or rebinds a name
Binding(name, v) == [name |-> name, v |-> v]
contains_value(sc, name) == \E k \in 1..Len(sc.values) : sc.values[k].name = name
get_value(sc, name) ==
    sc.values[CHOOSE k \in 1..Len(sc.values) : sc.values[k].name = name].v
add_value(sc, name, v) ==
    [sc EXCEPT !.values = SelectSeq(@, LAMBDA b : b.name # name) \o <<Binding(name, v)>>]
\* add_macro of a macro another scope holds
add_macro_of(sc, name, m) ==
    [sc EXCEPT !.macros = SelectSeq(@, LAMBDA o : o.name # name) \o <<[m EXCEPT !.name = name]>>]

\* is_exported with an export set that holds every name
is_exported_Any(sc, name) == TRUE

is_exported(sc, name) ==
    sc.has_exports /\ \E k \in 1..Len(sc.exports) : sc.exports[k] = name

ImportShadow(module, name) == <<"ImportShadow", <<module, name>>>>
ImportError(module, name) == <<"ImportError", <<module, name>>>>
PrivacyError(module, name) == <<"PrivacyError", <<module, name>>>>

\* the callback of import_values or import_macros on one item: importing
\* scope a, source scope b
ImportItem(kind, mod_name, a, b, src, dest) ==
    LET found == IF kind = "value" THEN contains_value(b, src) ELSE contains_macro(b, src)
    IN  IF ~found THEN [sc |-> a, err |-> ImportError(mod_name, src)]
        ELSE IF ~is_exported(b, src) THEN [sc |-> a, err |-> PrivacyError(mod_name, src)]
        ELSE [sc |-> IF kind = "value" THEN add_value(a, dest, get_value(b, src))
                     ELSE add_macro_of(a, dest, get_macro(b, src)),
              err |-> NoErr]

\* each_import, with the callback of import_values or of import_macros
RECURSIVE each_import(_, _, _, _, _)
each_import(kind, mod_name, a, b, items) ==
    IF items = <<>> THEN [sc |-> a, err |-> NoErr]
    ELSE LET paired == items[1].t = "keyword"
             bad == IF paired THEN ~(Len(items) >= 2 /\ items[2].t = "name")
                    ELSE items[1].t # "name"
             src == IF paired THEN items[2].n ELSE items[1].n
             r == ImportItem(kind, mod_name, a, b, src, items[1].n)
             rest == IF paired THEN Tail(Tail(items)) ELSE Tail(items)
         IN  IF bad
             THEN [sc |-> a,
                   err |-> SyntaxErrorOf(IF paired THEN "expected name following keyword"
                                         ELSE "expected name or keyword")]
             ELSE IF r.err # NoErr THEN r
             ELSE each_import(kind, mod_name, r.sc, b, rest)

import_values(mod_name, a, b, names) == each_import("value", mod_name, a, b, names)
import_macros(mod_name, a, b, names) == each_import("macro", mod_name, a, b, names)

\* import_all_values and import_all_macros of scope b into scope a: every
\* exported name that b defines
RECURSIVE ImportAll(_, _, _, _)
ImportAll(kind, a, b, names) ==
    IF names = <<>> THEN a
    ELSE LET r == ImportItem(kind, "", a, b, names[1], names[1])
         IN  ImportAll(kind, IF r.err = NoErr THEN r.sc ELSE a, b, Tail(names))
import_all_values(b, a) == ImportAll("value", a, b, b.exports)
import_all_macros(b, a) == ImportAll("macro", a, b, b.exports)

\* the module the registry has cached under the name m when compile is
\* called: its values, its macros and its export set, which names a value,
\* a macro, and one name the module does not define
ModuleM ==
    [values |-> <<Binding("pub", VInteger(1)), Binding("priv", VInteger(2)),
                  Binding("own", VInteger(3))>>,
     macros |-> <<Macro("mac", "loop", NoCode), Macro("pmac", "countdown", NoCode),
                  Macro("pub", "lambda-loop", NoCode)>>,
     exports |-> <<"pub", "mac", "own", "ghost">>,
     has_exports |-> TRUE]

\* get_module of a name the registry has in its cache, or has no module for
get_module_of(name) ==
    IF name = "m" THEN [ok |-> TRUE, scope |-> ModuleM, err |-> NoErr]
    ELSE [ok |-> FALSE, scope |-> ModuleM, err |-> ModuleError(name)]

\* the loop of op_use over args[2..]
RECURSIVE UseMacros(_, _, _, _)
UseMacros(mod_name, a, b, args) ==
    IF args = <<>> THEN [sc |-> a, err |-> NoErr]
    ELSE IF args[1] # VKeyword("macro")
    THEN [sc |-> a, err |-> SyntaxErrorOf("expected keyword :macro")]
    ELSE IF Len(args) < 2 \/ ~(args[2] = VKeyword("all") \/ args[2].t \in {"unit", "list"})
    THEN [sc |-> a, err |-> SyntaxErrorOf("expected :all or list of names after keyword")]
    ELSE LET r == CASE args[2].t = "keyword" -> [sc |-> import_all_macros(b, a), err |-> NoErr]
                    [] args[2].t = "unit" -> [sc |-> a, err |-> NoErr]
                    [] OTHER -> import_macros(mod_name, a, b, args[2].li)
         IN  IF r.err # NoErr THEN r
             ELSE UseMacros(mod_name, r.sc, b, Tail(Tail(args)))

\* op_use: the importing scope after it, and the Err of the callback
UseScope(sc, args) ==
    LET mod_name == args[1].n
        m == get_module_of(mod_name)
        vals == CASE args[2] = VKeyword("all") ->
                        [sc |-> import_all_values(m.scope, sc), err |-> NoErr]
                  [] args[2].t = "unit" -> [sc |-> sc, err |-> NoErr]
                  [] args[2].t = "list" -> import_values(mod_name, sc, m.scope, args[2].li)
                  [] OTHER -> [sc |-> sc,
                               err |-> SyntaxErrorOf("expected list of names or :all")]
    IN  IF ~get_name_ok(args[1]) THEN [sc |-> sc, err |-> SyntaxErrorOf("expected name")]
        ELSE IF ~m.ok THEN [sc |-> sc, err |-> m.err]
        ELSE IF vals.err # NoErr THEN vals
        ELSE UseMacros(mod_name, vals.sc, m.scope, SubSeq(args, 3, Len(args)))

op_use(c, sc, t) ==
    LET r == UseScope(sc, t.args)
    IN  IF r.err # NoErr THEN Fail(c, r.err) ELSE push_instruction(c, I0("Unit"))

OpUse ==
    /\ IsOp("use")
    /\ Commit(op_use(Rest, scope, CurTask))
    /\ scope' = UseScope(scope, CurTask.args).sc
    /\ UNCHANGED expr
    /\ UNCHANGED rvars

OpDefine ==
    /\ IsOp("define")
    /\ Commit(op_define(Rest, Outer, CurTask))
    /\ UNCHANGED <<scope, expr>>
    /\ UNCHANGED rvars

OpMacro ==
    /\ IsOp("macro")
    /\ Commit(op_macro(Rest, CurTask))
    /\ scope' = IF CurTask.st = 1 /\ CurTask.names = <<>>
                THEN add_macro(scope, CurTask.args[1].li[1].n, CurTask.args[3])
                ELSE scope
    /\ UNCHANGED expr
    /\ UNCHANGED rvars

OpStruct ==
    /\ IsOp("struct")
    /\ Commit(op_struct(Rest, CurTask))
    /\ UNCHANGED <<scope, expr>>
    /\ UNCHANGED rvars

OpLambda ==
    /\ IsOp("lambda")
    /\ Commit(op_lambda(Rest, Outer, CurTask))
    /\ UNCHANGED <<scope, expr>>
    /\ UNCHANGED rvars

OpExport ==
    /\ IsOp("export")
    /\ Commit(op_export(Rest, scope, CurTask))
    /\ scope' = IF Failed(op_export(Rest, scope, CurTask)) THEN scope
                ELSE set_exports(scope, NameSetOf(IF CurTask.args[1].t = "list"
                                                  THEN CurTask.args[1].li ELSE <<>>))
    /\ UNCHANGED expr
    /\ UNCHANGED rvars

-----------------------------------------------------------------------------
(* Quasiquote *)

\* compile_quasiquote(value, depth), where it is not compile_value that
\* goes on
\* compile_quasiquote that makes a constant of every other value
compile_quasiquote_AllConst(c, v, depth) ==
    CASE v.t = "comma" /\ v.d = depth -> Sched(c, <<TValue(v.v)>>)
      [] v.t = "comma" /\ v.d > depth -> Fail(c, UnbalancedComma)
      [] v.t = "comma" /\ v.d < depth ->
            Sched(c, <<TQuasi(v.v, depth - v.d), TInstr(I1("Comma", v.d))>>)
      [] v.t = "comma-at" /\ v.d > depth -> Fail(c, UnbalancedComma)
      [] v.t = "comma-at" /\ v.d = depth -> Fail(c, InvalidCommaAt)
      [] v.t = "list" -> Sched(c, <<TQList(v.li, 1, 0, 0, depth)>>)
      [] v.t = "quote" ->
            Sched(c, <<TQuasi(v.v, depth), TInstr(I1("Quote", v.d))>>)
      [] v.t = "quasiquote" ->
            Sched(c, <<TQuasi(v.v, depth + v.d)>>
                     \o (IF depth # 0 THEN <<TInstr(I1("Quasiquote", v.d))>>
                         ELSE IF v.d # 1 THEN <<TInstr(I1("Quasiquote", v.d - 1))>>
                         ELSE <<>>))
      [] OTHER -> push_instruction(add_const(c, v).c, I1("Const", add_const(c, v).r))

compile_quasiquote(c, v, depth) ==
    CASE v.t = "comma" /\ v.d = depth -> Sched(c, <<TValue(v.v)>>)
      [] v.t = "comma" /\ v.d > depth -> Fail(c, UnbalancedComma)
      [] v.t = "comma" /\ v.d < depth ->
            Sched(c, <<TQuasi(v.v, depth - v.d), TInstr(I1("Comma", v.d))>>)
      [] v.t = "comma-at" /\ v.d > depth -> Fail(c, UnbalancedComma)
      [] v.t = "comma-at" /\ v.d = depth -> Fail(c, InvalidCommaAt)
      [] v.t = "list" -> Sched(c, <<TQList(v.li, 1, 0, 0, depth)>>)
      [] v.t = "quote" ->
            Sched(c, <<TQuasi(v.v, depth), TInstr(I1("Quote", v.d))>>)
      [] v.t = "quasiquote" ->
            Sched(c, <<TQuasi(v.v, depth + v.d)>>
                     \o (IF depth # 0 THEN <<TInstr(I1("Quasiquote", v.d))>>
                         ELSE IF v.d # 1 THEN <<TInstr(I1("Quasiquote", v.d - 1))>>
                         ELSE <<>>))
      [] OTHER -> load_quoted_value(c, v)

\* compile_quasiquote_list that passes over a ,@ of too great a depth
compile_quasiquote_list_Skips(c, t) ==
    LET li == t.args
        k == t.st
        n_items == t.loc[1]
        n_lists == t.loc[2]
        depth == t.loc[3]
        v == li[k]
        first == IF n_items = 0 /\ n_lists = 1 THEN push_instruction(c, I0("Push")) ELSE c
        listed == IF n_items # 0
                  THEN push_instruction(push_instruction(first, I1("List", n_items)),
                                        I0("Push"))
                  ELSE first
        lists == IF n_items # 0 THEN n_lists + 1 ELSE n_lists
        ended == IF n_items = 0 THEN c
                 ELSE IF n_lists = 0 THEN push_instruction(c, I1("List", n_items))
                 ELSE push_instruction(push_instruction(c, I1("List", n_items)),
                                       I0("Push"))
        n_ended == IF n_items # 0 /\ n_lists # 0 THEN n_lists + 1 ELSE n_lists
    IN  IF k > Len(li)
        THEN IF n_ended > 1 THEN push_instruction(ended, CallSysArgs("concat", n_ended))
             ELSE ended
        ELSE CASE v.t = "comma-at" /\ v.d = depth ->
                    Sched(listed, <<TValue(v.v)>>
                                  \o (IF lists # 0 THEN <<TInstr(I0("Push"))>> ELSE <<>>)
                                  \o <<TQList(li, k + 1, 0, lists + 1, depth)>>)
               [] v.t = "comma-at" /\ v.d > depth -> Sched(first, <<TQList(li, k + 1, n_items, n_lists, depth)>>)
               [] v.t = "comma-at" /\ v.d < depth ->
                    Sched(first, <<TQuasi(v.v, depth - v.d),
                                   TInstr(I1("CommaAt", depth - v.d)),
                                   TInstr(I0("Push")),
                                   TQList(li, k + 1, n_items + 1, n_lists, depth)>>)
               [] OTHER ->
                    Sched(first, <<TQuasi(v, depth), TInstr(I0("Push")),
                                   TQList(li, k + 1, n_items + 1, n_lists, depth)>>)

\* compile_quasiquote_list: the loop at element k, and what follows it
compile_quasiquote_list(c, t) ==
    LET li == t.args
        k == t.st
        n_items == t.loc[1]
        n_lists == t.loc[2]
        depth == t.loc[3]
        v == li[k]
        first == IF n_items = 0 /\ n_lists = 1 THEN push_instruction(c, I0("Push")) ELSE c
        listed == IF n_items # 0
                  THEN push_instruction(push_instruction(first, I1("List", n_items)),
                                        I0("Push"))
                  ELSE first
        lists == IF n_items # 0 THEN n_lists + 1 ELSE n_lists
        ended == IF n_items = 0 THEN c
                 ELSE IF n_lists = 0 THEN push_instruction(c, I1("List", n_items))
                 ELSE push_instruction(push_instruction(c, I1("List", n_items)),
                                       I0("Push"))
        n_ended == IF n_items # 0 /\ n_lists # 0 THEN n_lists + 1 ELSE n_lists
    IN  IF k > Len(li)
        THEN IF n_ended > 1 THEN push_instruction(ended, CallSysArgs("concat", n_ended))
             ELSE ended
        ELSE CASE v.t = "comma-at" /\ v.d = depth ->
                    Sched(listed, <<TValue(v.v)>>
                                  \o (IF lists # 0 THEN <<TInstr(I0("Push"))>> ELSE <<>>)
                                  \o <<TQList(li, k + 1, 0, lists + 1, depth)>>)
               [] v.t = "comma-at" /\ v.d > depth -> Fail(first, UnbalancedComma)
               [] v.t = "comma-at" /\ v.d < depth ->
                    Sched(first, <<TQuasi(v.v, depth - v.d),
                                   TInstr(I1("CommaAt", depth - v.d)),
                                   TInstr(I0("Push")),
                                   TQList(li, k + 1, n_items + 1, n_lists, depth)>>)
               [] OTHER ->
                    Sched(first, <<TQuasi(v, depth), TInstr(I0("Push")),
                                   TQList(li, k + 1, n_items + 1, n_lists, depth)>>)

CompileQuasiquote ==
    /\ Running("quasi")
    /\ Commit(compile_quasiquote(Rest, CurTask.args[1], CurTask.st))
    /\ UNCHANGED <<scope, expr>>
    /\ UNCHANGED rvars

CompileQuasiquoteList ==
    /\ Running("qlist")
    /\ Commit(compile_quasiquote_list(Rest, CurTask))
    /\ UNCHANGED <<scope, expr>>
    /\ UNCHANGED rvars

\* one step of compile(scope, expr)
CompileNext ==
    \/ Compile
    \/ CompileValue
    \/ ExpandMacro
    \/ MacroReturn
    \/ PushInstruction
    \/ CallFunction
    \/ AssembleCode
    \/ CompileQuasiquote
    \/ CompileQuasiquoteList
    \/ MakeLambda
    \/ CompileLambda
    \/ AssembleLambda
    \/ OpDo
    \/ OpApply
    \/ OpLet
    \/ OpIf
    \/ OpAnd
    \/ OpOr
    \/ OpCase
    \/ OpCond
    \/ OpDefine
    \/ OpMacro
    \/ OpStruct
    \/ OpLambda
    \/ OpExport
    \/ OpUse

-----------------------------------------------------------------------------
(* The expressions and the scope the compiler is run on *)

Form(name, args) == VList(<<VName(name)>> \o args)

\* the bounds of the expressions compiled
MaxCount == 101
DeepCounts == 3
MaxAtoms == 3

AllAtoms == <<VName("a"), VInteger(1), VName("x"), VName("b"), VInteger(2)>>
Atoms == {AllAtoms[k] : k \in 1..MaxAtoms}

\* the macros of the scope, defined by earlier compile calls
FixtureScope ==
    [macros |-> <<Macro("count", "countdown", NoCode),
                  Macro("lam-count", "lambda-countdown", NoCode),
                  Macro("loop", "loop", NoCode),
                  Macro("lam-loop", "lambda-loop", NoCode)>>,
     values |-> <<Binding("own", VInteger(5))>>,
     exports |-> <<>>,
     has_exports |-> FALSE]

\* chains of nested macro expansions: (count k) expands k + 1 times, each
\* expansion inside the one before
MacroForms ==
    {Form("count", <<VInteger(k)>>) : k \in (MaxCount - DeepCounts)..MaxCount}
    \cup {Form("lam-count", <<VInteger(k)>>) : k \in {1, MaxCount}}
    \cup {Form("count", <<VInteger(0)>>), Form("count", <<>>),
          Form("loop", <<>>), Form("lam-loop", <<>>),
          Form("do", <<Form("macro", <<Form("m", <<>>), VInteger(7)>>),
                       Form("m", <<>>)>>),
          Form("let", <<VList(<<VList(<<VName("m"), VInteger(1)>>)>>),
                        Form("macro", <<Form("m", <<>>), VName("m")>>)>>),
          Form("let", <<VList(<<VList(<<VName("count"), VInteger(1)>>)>>),
                        Form("count", <<VInteger(1)>>)>>)}

Clause(pats, body) == VList(<<VList(pats), body>>)
Else(body) == VList(<<VName("else"), body>>)
Bind(name, v) == VList(<<VList(<<VName(name), v>>)>>)
\* ((n1 1) (n2 2) ...)
Binds(names) == VList([k \in 1..Len(names) |-> VList(<<VName(names[k]), VInteger(k)>>)])

\* every operator and call shape, with p and q from the given sets
FormsOver(ps, qs) ==
    UNION {
        {Form("if", <<p, q>>), Form("and", <<p, q>>), Form("or", <<p, q>>),
         Form("do", <<p, q>>), Form("let", <<Bind("a", p), q>>),
         Form("case", <<p, Clause(<<VInteger(1), VInteger(2)>>, q)>>),
         Form("cond", <<VList(<<p, q>>)>>),
         Form("append", <<p, q>>), Form("=", <<p, q>>), Form("/=", <<q, p>>),
         Form("f", <<p, q>>), Form("a", <<q>>), Form("+", <<p, q>>),
         Form("xor", <<p, q>>), Form("apply", <<p, q>>),
         Form("list", <<p, q, p>>),
         Form("lambda", <<VList(<<VName("b")>>), Form("list", <<p, q>>)>>),
         Form("define", <<Form("f", <<VName("b")>>), Form("f", <<p, q>>)>>),
         VQuasiquote(VList(<<p, VComma(q, 1)>>), 1),
         VQuasiquote(VList(<<VCommaAt(p, 1), q, VCommaAt(q, 1)>>), 1),
         Form("if", <<p, q, p>>),
         Form("case", <<p, Clause(<<VInteger(1)>>, q), Else(p)>>),
         Form("cond", <<VList(<<p, q>>), Else(q)>>)}
        : p \in ps, q \in qs}

Forms1 ==
    FormsOver({VName("x")}, Atoms)
    \cup {Form("not", <<VName("x")>>), Form("id", <<VName("a")>>),
          Form("inf", <<>>), Form("list", <<>>), VQuote(VName("a"), 1),
          VQuote(VName("a"), 2), VBool(TRUE), VUnit, VKeyword("k")}

\* the forms that branch, for the positions where blocks are joined
Branching ==
    {e \in FormsOver({VName("x")}, {VName("a")}) :
        e.t = "list" /\ e.li[1].n \in {"if", "and", "or", "case", "cond", "let"}}

\* e inside each construct, in each position
Around(e) ==
    {Form("if", <<e, VInteger(1), VName("a")>>), Form("if", <<VName("x"), e>>),
     Form("if", <<VName("x"), VName("a"), e>>),
     Form("and", <<e, VName("x")>>), Form("or", <<VName("x"), e, VName("a")>>),
     Form("do", <<e, VName("x")>>),
     Form("let", <<Bind("a", e), VName("a")>>),
     Form("let", <<Bind("a", VInteger(1)), e>>),
     Form("let", <<Bind("b", VInteger(1)), Form("let", <<Bind("a", VName("b")), e>>)>>),
     Form("case", <<e, Clause(<<VInteger(1)>>, VName("a"))>>),
     Form("case", <<VName("x"), Clause(<<VInteger(2), VUnit>>, e), Else(VInteger(1))>>),
     Form("cond", <<VList(<<e, VName("a")>>), VList(<<VName("x"), e>>)>>),
     Form("f", <<e, VName("a")>>), Form("append", <<VName("x"), e>>),
     Form("=", <<e, VName("x")>>),
     Form("lambda", <<VList(<<VName("a")>>), e>>),
     Form("lambda", <<VUnit, e>>),
     Form("let", <<Bind("a", VInteger(1)), Form("lambda", <<VUnit, e>>)>>),
     Form("let", <<Bind("a", VInteger(1)),
                   Form("lambda", <<VUnit, Form("lambda", <<VList(<<VName("x")>>), e>>)>>)>>),
     Form("let", <<Binds(<<"a", "x">>), Form("lambda", <<VUnit, e>>)>>),
     Form("let", <<Binds(<<"a", "x">>), Form("lambda", <<VList(<<VName("a")>>), e>>)>>),
     Form("lambda", <<VList(<<VName("b"), VKeyword("optional"),
                               VList(<<VName("a"), e>>)>>), VName("a")>>),
     Form("define", <<Form("g", <<VName("a"), VKeyword("rest"), VName("x")>>), e>>),
     Form("define", <<VName("g"), e>>),
     VQuasiquote(VList(<<VName("a"), VComma(e, 1)>>), 1)}

Forms2 == UNION {Around(e) : e \in FormsOver({VName("x")}, {VName("a")})}
Forms3 ==
    UNION {{Form("if", <<p, q, VName("a")>>), Form("do", <<p, q>>),
            Form("and", <<p, q>>), Form("let", <<Bind("a", p), q>>),
            Form("case", <<p, Clause(<<VInteger(1)>>, q), Else(p)>>),
            Form("lambda", <<VList(<<VName("x"), VKeyword("key"),
                                      VList(<<VName("a"), p>>), VName("b")>>), q>>)}
           : p \in Branching, q \in Branching}

\* the parameter lists make_lambda refuses, and the other errors
Refused ==
    {Form("lambda", <<VList(ps), VName("a")>>) :
        ps \in {<<VName("a"), VName("a")>>,
                <<VKeyword("key")>>, <<VKeyword("optional")>>,
                <<VKeyword("key"), VKeyword("optional"), VName("a")>>,
                <<VKeyword("optional"), VName("a"), VKeyword("optional")>>,
                <<VKeyword("rest")>>, <<VKeyword("rest"), VInteger(1)>>,
                <<VKeyword("rest"), VName("a"), VName("b")>>,
                <<VKeyword("key"), VName("a"), VKeyword("rest"), VName("b")>>,
                <<VKeyword("other")>>, <<VInteger(1)>>,
                <<VList(<<VInteger(1), VInteger(1)>>)>>}}
    \cup {Form("lambda", <<VInteger(1), VName("a")>>),
          Form("define", <<VName("if"), VInteger(1)>>),
          Form("define", <<Form("do", <<>>), VInteger(1)>>),
          Form("define", <<VInteger(1), VInteger(1)>>),
          Form("define", <<VList(<<VInteger(1)>>), VInteger(1)>>),
          Form("macro", <<VName("m"), VInteger(1)>>),
          Form("macro", <<Form("let", <<>>), VInteger(1)>>),
          Form("if", <<VName("x")>>), Form("xor", <<VName("x")>>),
          Form("let", <<VInteger(1), VName("x")>>),
          Form("let", <<VList(<<VName("a")>>), VName("x")>>),
          Form("case", <<VName("x"), VName("a")>>),
          Form("case", <<VName("x"), Else(VName("a")), Else(VName("a"))>>),
          Form("cond", <<VName("x")>>),
          Form("cond", <<Else(VName("a")), VList(<<VName("x"), VName("a")>>)>>),
          Form("cond", <<VList(<<VName("x"), VInteger(1)>>), Else(VName("a")), Else(VName("x"))>>),
          Form("case", <<VName("x"), Else(VName("a")), Clause(<<VInteger(1)>>, VName("a"))>>),
          Form("case", <<VName("x"), Clause(<<VInteger(1)>>, VName("a")), Else(VInteger(1)),
                         Clause(<<VInteger(2)>>, VName("a")), Else(VInteger(2))>>),
          Form("do", <<VName("x"), Form("case", <<VName("x"), Else(VName("a")), VInteger(1)>>)>>),
          Form("struct", <<VName("S"), VInteger(1)>>),
          Form("struct", <<VName("S"), VList(<<VName("x")>>)>>),
          Form("export", <<VInteger(1)>>), Form("export", <<VList(<<VInteger(1)>>)>>),
          Form("do", <<Form("export", <<VUnit>>), Form("export", <<VUnit>>)>>),
          VList(<<VInteger(1), VName("x")>>), VComma(VName("x"), 1),
          VCommaAt(VName("x"), 1),
          VQuasiquote(VComma(VName("x"), 2), 1),
          VQuasiquote(VCommaAt(VName("x"), 1), 1),
          VQuasiquote(VCommaAt(VName("x"), 2), 1),
          VQuasiquote(VList(<<VCommaAt(VName("x"), 2)>>), 1),
          VQuasiquote(VList(<<VName("a"), VComma(Form("f", <<VComma(VName("x"), 1)>>), 1)>>), 1),
          VQuasiquote(VList(<<VCommaAt(Form("f", <<VCommaAt(VName("x"), 1)>>), 1)>>), 1),
          VQuasiquote(VList(<<VName("a"), VQuasiquote(VComma(VName("x"), 3), 1)>>), 1),
          Form("f", <<VComma(VName("x"), 1)>>),
          Form("lambda", <<VList(<<VName("a"), VKeyword("rest"), VName("a")>>), VName("a")>>),
          Form("lambda", <<VList(<<VName("a"), VKeyword("optional"), VName("b"),
                                    VKeyword("rest"), VName("b")>>), VName("b")>>),
          Form("lambda", <<VList(<<VName("a"), VKeyword("optional"), VName("b"),
                                    VList(<<VName("a"), VInteger(1)>>)>>), VName("b")>>),
          Form("lambda", <<VList(<<VName("a"), VKeyword("key"), VName("b"), VName("a")>>),
                           VName("b")>>),
          Form("let", <<Bind("f", VInteger(1)),
                        Form("define", <<Form("f", <<>>),
                                         Form("lambda", <<VUnit, VName("f")>>)>>)>>)}

\* expressions whose code is too long for one-byte operands
LongClauses == 12
LongForms ==
    {Form("cond", [k \in 1..LongClauses |-> VList(<<VName("a"), VInteger(k)>>)]),
     Form("case", <<VName("x")>>
                  \o [k \in 1..LongClauses |-> Clause(<<VInteger(k)>>, VName("a"))]),
     Form("and", <<VName("a"),
                   Form("case", <<VName("x")>>
                                \o [k \in 1..LongClauses |->
                                       Clause(<<VInteger(k), VUnit>>, VInteger(k))]
                                \o <<Else(Form("let", <<VUnit, VUnit>>))>>)>>)}

\* expressions whose code is about as long as one-byte operands allow:
\* (do () ... () (cond (a 1) ... (a n))), each () one byte more
NearClauses == 9
MaxPad == 16
NearForms ==
    {Form("do", [k \in 1..pad |-> VUnit]
                \o <<Form("cond", [k \in 1..NearClauses |->
                                     VList(<<VName("a"), VInteger(k)>>)])>>)
        : pad \in 0..MaxPad}

\* values without commas, quoted and quasiquoted
PlainValues ==
    {VInteger(1), VName("x"), VKeyword("k"), VUnit, VBool(TRUE), VBool(FALSE),
     VList(<<VInteger(1), VName("x")>>),
     VList(<<VList(<<VInteger(1)>>), VUnit, VName("x")>>)}
QuoteForms == {VQuote(v, 1) : v \in PlainValues} \cup {VQuasiquote(v, 1) : v \in PlainValues}

\* struct, export, the deeper quasiquotes, and calls of a computed function
Others ==
    {Form("if", <<VBool(TRUE), VInteger(1), VInteger(2)>>),
     Form("lambda", <<VList(<<VName("a"), VKeyword("optional"),
                               VList(<<VName("b"), VName("c")>>),
                               VList(<<VName("c"), VName("b")>>),
                               VKeyword("rest"), VName("r")>>), VName("r")>>),
     Form("lambda", <<VList(<<VName("a"), VKeyword("key"),
                               VList(<<VName("k"), VName("a")>>),
                               VList(<<VName("j"), Form("list", <<VName("k"), VName("j"),
                                                                  VName("a")>>)>>)>>),
                      VName("j")>>),
     Form("lambda", <<VList(<<VKeyword("optional"),
                               VList(<<VName("b"), Form("let", <<Bind("t", VName("b")),
                                                       Form("f", <<VName("t"), VName("b")>>)>>)>>),
                               VList(<<VName("c"), Form("let", <<Bind("u", VName("b")),
                                                                 VName("u")>>)>>)>>),
                      VName("c")>>),
     Form("define", <<Form("count", <<VName("n")>>), Form("count", <<VName("n")>>)>>),
     Form("define", <<Form("+", <<VName("a")>>), Form("+", <<VName("a"), VInteger(1)>>)>>),
     Form("define", <<Form("f", <<VName("f")>>), Form("f", <<VInteger(1)>>)>>),
     Form("let", <<Bind("f", VInteger(1)),
                   Form("define", <<Form("f", <<VName("a")>>),
                                    Form("f", <<VName("a"), VName("f")>>)>>)>>),
     Form("let", <<VList(<<VList(<<VName("if"), VInteger(1)>>),
                           VList(<<VName("first"), VInteger(2)>>),
                           VList(<<VName("count"), VInteger(3)>>)>>),
                   Form("do", <<Form("if", <<VInteger(4)>>), Form("first", <<VInteger(5)>>),
                                Form("count", <<VInteger(6)>>)>>)>>),
     Form("let", <<VList(<<VList(<<VName("count"), VInteger(1)>>),
                           VList(<<VName("if"), VInteger(2)>>)>>),
                   Form("lambda", <<VUnit, Form("do", <<Form("count", <<VInteger(2)>>),
                                                        Form("if", <<VInteger(3)>>)>>)>>)>>),
     Form("do", <<Form("use", <<VName("m"), VUnit, VKeyword("macro"),
                                VList(<<VKeyword("if"), VName("mac")>>)>>),
                  Form("if", <<>>)>>),
     VQuote(VName("a"), 2),
     Form("=", <<VName("x"), VQuote(VName("a"), 1)>>),
     Form("=", <<VQuote(VName("a"), 2), VName("x")>>),
     Form("/=", <<VName("x"), VQuote(VList(<<VName("a")>>), 1)>>),
     Form("case", <<VName("x"), Clause(<<VQuote(VName("a"), 1), VInteger(1)>>, VInteger(2))>>),
     Form("lambda",
          <<VList(<<VKeyword("optional"),
                    VList(<<VName("b"),
                            Form("and", <<VName("a"),
                                          Form("case", <<VName("a"),
                                                         Clause(<<VInteger(1)>>,
                                                                Form("if", <<VName("a"), VInteger(1),
                                                                             VInteger(2)>>))>>)>>)>>)>>),
            Form("cond", <<VList(<<VName("b"),
                                   Form("let", <<Bind("t", VName("b")),
                                                 Form("or", <<VName("t"), VName("b")>>)>>)>>)>>)>>),
     Form("struct", <<VName("S"), VUnit>>),
     Form("struct", <<VName("S"), VList(<<VList(<<VName("x"), VName("integer")>>),
                                          VList(<<VName("x"), VName("string")>>)>>)>>),
     Form("export", <<VUnit>>),
     Form("export", <<VList(<<VName("a"), VName("b"), VName("a")>>)>>),
     VQuasiquote(VList(<<VCommaAt(VName("c"), 1),
                         VQuasiquote(VComma(VComma(VName("x"), 1), 1), 1)>>), 1),
     VQuasiquote(VList(<<VCommaAt(VName("c"), 1)>>), 2),
     VQuasiquote(VCommaAt(VName("x"), 1), 2),
     VQuasiquote(VList(<<VName("a"), VQuasiquote(VCommaAt(VComma(VName("x"), 1), 1), 1)>>), 1),
     VQuasiquote(VQuote(VCommaAt(VName("x"), 1), 1), 2),
     VQuasiquote(VQuote(VList(<<VName("a"), VCommaAt(VName("c"), 1)>>), 1), 2),
     VList(<<Form("f", <<VName("x")>>), VName("a")>>),
     Form("let", <<Binds(<<"a", "x", "b">>),
                   Form("lambda", <<VList(<<VName("a")>>),
                                    Form("list", <<VName("x"), VName("b"), VName("a"),
                                                   VName("x"), VName("b")>>)>>)>>),
     Form("lambda", <<VList(<<VName("a"), VKeyword("optional"), VName("b"),
                               VList(<<VName("c"), VName("a")>>),
                               VKeyword("rest"), VName("r")>>),
                      Form("list", <<VName("a"), VName("b"), VName("c"), VName("r")>>)>>),
     Form("define", <<Form("f", <<VName("n")>>),
                      Form("if", <<Form("=", <<VName("n"), VInteger(0)>>), VInteger(1),
                                   Form("f", <<Form("+", <<VName("n"), VInteger(1)>>)>>)>>)>>)}

\* (use m names) and (use m () :macro names), the names up to MaxUseItems
\* items; the other shapes of use
MaxUseItems == 3
UseItems ==
    {VName("pub"), VName("priv"), VName("mac"), VName("ghost"), VKeyword("d"), VInteger(1)}
UseForms ==
    {Form("use", <<VName("m"), VList(li)>>) : li \in SeqsUpTo(UseItems, MaxUseItems) \ {<<>>}}
    \cup {Form("use", <<VName("m"), VUnit, VKeyword("macro"), VList(li)>>) :
            li \in SeqsUpTo(UseItems, MaxUseItems) \ {<<>>}}
    \cup {Form("use", <<VName("m"), VList(<<VName("pub"), VKeyword("own"), VName("pub")>>),
                        VKeyword("macro"), VList(<<VKeyword("m2"), VName("mac"), VName("pmac")>>)>>),
          Form("use", <<VName("m"), VList(<<VKeyword("own"), VName("pub")>>)>>),
          Form("use", <<VName("m"), VKeyword("all"), VKeyword("macro"), VKeyword("all")>>),
          Form("use", <<VName("m"), VUnit, VKeyword("macro"), VUnit>>),
          Form("use", <<VName("m"), VUnit>>),
          Form("use", <<VName("m"), VInteger(1)>>),
          Form("use", <<VName("m"), VUnit, VKeyword("macro")>>),
          Form("use", <<VName("m"), VUnit, VKeyword("macro"), VInteger(1)>>),
          Form("use", <<VName("m"), VUnit, VList(<<VName("mac")>>)>>),
          Form("use", <<VName("n"), VList(<<VName("pub")>>)>>),
          Form("use", <<VInteger(1), VList(<<VName("pub")>>)>>),
          Form("use", <<VName("m")>>)}

CompileInputs ==
    UseForms \cup Forms1 \cup Forms2 \cup Forms3 \cup Refused \cup Others \cup LongForms \cup NearForms
    \cup QuoteForms
    \cup MacroForms

\* compile(scope, expr) is about to be called, by a program that has no
\* module files and has made no get_module call
InitCompile ==
    /\ modules = [n \in AllNames |-> NoModule]
    /\ chain = <<>>
    /\ stack = <<>>
    /\ files = [n \in AllNames |-> NoFile]
    /\ source = [n \in AllNames |-> <<>>]
    /\ nextScope = 1
    /\ calls = 0
    /\ loadCount = [n \in AllNames |-> 0]
    /\ log = <<>>
    /\ scope = FixtureScope
    /\ expr \in CompileInputs
    /\ comps = <<>>
    /\ cstate = "idle"
    /\ cresult = NoResult

SpecCompile == InitCompile /\ [][CompileNext]_vars


\* The registry starts empty; the file system holds a source file for each
\* file module, taken from fileChoices, with contents over items.
RegistryInit(fileChoices(_), items) ==
    /\ modules = [n \in AllNames |-> NoModule]
    /\ chain = <<>>
    /\ stack = <<>>
    /\ files \in [AllNames -> FileStates]
    /\ \A n \in AllNames : files[n] \in (IF n \in FileNames THEN fileChoices(n) ELSE {NoFile})
    /\ source \in [AllNames -> SeqsUpTo(items, MaxExprs)]
    /\ \A n \in AllNames : ~files[n].src => source[n] = <<>>
    /\ nextScope = 1
    /\ calls = 0
    /\ loadCount = [n \in AllNames |-> 0]
    /\ log = <<>>
    /\ CompilerIdle

SrcOnly == [NoFile EXCEPT !.src = TRUE]
NewerCode == [src |-> TRUE, code |-> TRUE, srcTime |-> <<0, 0>>,
              codeTime |-> <<0, 1>>, version |-> TRUE]

ImportItems == {UseItem(NameA), UseItem(NameB), ExportItem, BadItem}

ImportFiles(n) == {SrcOnly, NewerCode}

Init == RegistryInit(ImportFiles, ImportItems)

Next == RegistryNext

Spec == Init /\ [][Next]_vars

\* every state of module a's two files, beside a module b kept as source
AnyFiles(n) == IF n = NameA THEN FileStates ELSE {SrcOnly}

FileItems == {UseItem(NameB), ExportItem}

InitFiles == RegistryInit(AnyFiles, FileItems)

SpecFiles == InitFiles /\ [][Next]_vars

-----------------------------------------------------------------------------
(* Claims about the module registry and the file loader *)

LogIdx == 1..Len(log)
EntriesOf(n) == {i \in LogIdx : log[i].name = n}
Failures(n) == {i \in EntriesOf(n) : ~log[i].res.ok}
\* get_module calls for n whose load_module call has been made and which
\* have not returned yet
InProgress(n) == {k \in 1..Len(stack) : stack[k].name = n /\ stack[k].pc \notin {"lookup", "load"}}
\* load_module calls for n that returned Ok
SuccessfulLoads(n) == loadCount[n] - Cardinality(Failures(n)) - Cardinality(InProgress(n))
Cached(n) == modules[n] # NoModule

\* C1 as stated: every later get_module(name) returns what the first call
\* for the name returned, and load_module is invoked at most once per name.
C1_OncePerName ==
    \A n \in AllNames :
        /\ loadCount[n] <= 1
        /\ \A i, j \in EntriesOf(n) : log[i].res = log[j].res

\* C1 amended: once a get_module(name) has returned a module, every later
\* get_module(name) returns that same module, the cache holds it, and
\* load_module returns Ok at most once per name.
C1_CacheStable ==
    \A n \in AllNames :
        /\ \A i, j \in EntriesOf(n) :
              (i < j /\ log[i].res.ok) => log[j].res = log[i].res
        /\ \A i \in EntriesOf(n) : log[i].res.ok => modules[n] = log[i].res.mod
        /\ SuccessfulLoads(n) \in 0..1

\* a name was loaded and then returned again from the cache
C1_Witness ==
    \E n \in AllNames : \E i, j \in EntriesOf(n) :
        i < j /\ log[i].res.ok /\ log[j].res.ok /\ loadCount[n] = 1

\* the `use` targets of a module's source, and the modules its source
\* reaches through chains of `use`
Uses(n) == {source[n][i].m : i \in {i \in 1..Len(source[n]) : source[n][i].k = "use"}}
UsesOfSet(S) == UNION {Uses(n) : n \in S}
RECURSIVE ReachFrom(_, _)
ReachFrom(S, k) == IF k = 0 THEN S ELSE ReachFrom(S \cup UsesOfSet(S), k - 1)
TransUses(n) == ReachFrom(Uses(n), Cardinality(AllNames))

IsCycleError(res) == ~res.ok /\ res.err # NoErr /\ res.err[1] = "ImportCycle"
NoCompiledFiles == \A n \in AllNames : ~files[n].code

\* C2 as stated: on a fresh registry with source files only, a load of a
\* module A whose source transitively uses A, and in which no load fails
\* for another reason than an import cycle, fails with ImportCycle(A).
C2_CycleNamesStart ==
    \A i \in LogIdx :
        (/\ i = Len(log) /\ calls = 1 /\ log[i].depth = 1
         /\ NoCompiledFiles
         /\ \A j \in LogIdx : log[j].res.ok \/ IsCycleError(log[j].res)
         /\ log[i].name \in TransUses(log[i].name))
        => log[i].res = Err(ImportCycle(log[i].name))

\* the calls made by call k's load (its `use` expressions)
Children(k) == {j \in 1..(k - 1) :
                  /\ log[j].depth = log[k].depth + 1
                  /\ \A m \in (j + 1)..(k - 1) : log[m].depth > log[k].depth}
\* the loads in progress that guard_import has pushed
Guarded == {k \in 1..Len(stack) :
              stack[k].pc \in {"read_code", "compile", "execute", "check_exports",
                               "write", "unguard"}}

\* C2 amended: a load of module X requested while the source path of X is
\* on the path chain fails with ImportCycle(X), X being the module whose
\* load is re-entered first (the starting module only if no other cycle is
\* closed first), and the error aborts every enclosing load unchanged; the
\* chain holds exactly the paths of the file loads in progress, each once,
\* so no load recurses without bound.
C2_CycleDetected ==
    /\ \A i, j \in 1..Len(chain) : i # j => chain[i] # chain[j]
    /\ Len(chain) = Cardinality(Guarded)
    /\ \A k \in Guarded : OnChain(PathOf(stack[k].name, FILE_EXTENSION))
    /\ \A k \in LogIdx :
          /\ \A j \in Children(k) : IsCycleError(log[j].res) => log[k].res = log[j].res
          /\ (IsCycleError(log[k].res) /\ \A j \in Children(k) : ~IsCycleError(log[j].res))
                => log[k].res = Err(ImportCycle(log[k].name))

\* a load that started at one module failed with the ImportCycle of another
C2_Witness ==
    \E k \in LogIdx :
        /\ log[k].depth = 1
        /\ IsCycleError(log[k].res)
        /\ log[k].res # Err(ImportCycle(log[k].name))
        /\ log[k].name \in TransUses(log[k].name)

\* C3: when load_module returns an error, get_module returns that error
\* and leaves the cache as it was, with no entry for the name; every
\* failed call has invoked the loader, so a later call invokes it again.
C3_FailedLoadStep ==
    (Len(log') = Len(log) + 1 /\ ~log'[Len(log')].res.ok)
    => /\ modules' = modules
       /\ ~Cached(Top.name)
       /\ Top.pc = "unguard" => log'[Len(log')].res = Top.res
       /\ loadCount'[Top.name] >= Cardinality(Failures(Top.name)) + 1

C3_FailedLoadNotCached ==
    /\ [](\A n \in AllNames :
            loadCount[n] = Cardinality(Failures(n)) + Cardinality(InProgress(n))
                            + (IF Cached(n) THEN 1 ELSE 0))
    /\ [][C3_FailedLoadStep]_vars

\* the same name failed to load twice: the loader was invoked both times
C3_Witness ==
    \E n \in AllNames :
        /\ Cardinality({i \in Failures(n) : log[i].depth = 1}) = 2
        /\ loadCount[n] >= 2
        /\ ~Cached(n)

\* the compiled file exists and its time is strictly greater than the
\* source's, or the source is absent
CodeIsChosen(f) ==
    f.code /\ (~f.src \/ (\E s, c \in Times :
                            /\ s = f.srcTime /\ c = f.codeTime /\ c # s
                            /\ ~(c[1] < s[1]) /\ (c[1] = s[1] => ~(c[2] < s[2]))))

C4_LoadStep ==
    LET f == files[Top.name]
        kept == Len(stack') = Len(stack)
        after == stack'[Len(stack)]
    IN  /\ (stack # <<>> /\ Top.pc = "load" /\ ~InvalidModuleName(Top.name) /\ kept)
            => /\ after.via = "code" <=> CodeIsChosen(f)
               /\ after.via = "source" <=> (~CodeIsChosen(f) /\ f.src)
               /\ after.via = "builtin" <=> (~f.code /\ ~f.src)
               /\ after.via \in {"code", "source", "builtin"}
        /\ (stack # <<>> /\ Top.pc = "read_code")
            => /\ Top.via = "code"
               /\ f.version => (after.pc = "unguard" /\ after.via = "code")
               /\ (~f.version /\ f.src) => (after.pc = "compile" /\ after.via = "fallback")
               /\ (~f.version /\ ~f.src) =>
                     (after.pc = "unguard" /\ after.res = Err(IncorrectVersion))

\* C4: load_module loads from the compiled file exactly when it exists and
\* the source is absent or strictly older (equal times choose the source);
\* a mismatched version falls back to the source when there is one and is
\* a decode error otherwise; with neither file the builtin loader is used.
C4_FileChoice == [][C4_LoadStep]_vars

\* a module with both files stamped with the same time is being compiled
\* from its source, and one with a mismatched version fell back
C4_Witness ==
    \E k \in 1..Len(stack) :
        LET f == files[stack[k].name]
        IN  /\ f.src /\ f.code /\ f.srcTime = f.codeTime
            /\ stack[k].via = "source" /\ stack[k].pc = "compile"

-----------------------------------------------------------------------------
(* Claims about the compiler *)

\* the macro expansions a compiler is inside of: those whose expansion it
\* is compiling, each with its macro_recursion -= 1 still to come
OpenExpansions(c) ==
    Cardinality({k \in 1..Len(c.tasks) : c.tasks[k].k = "unmacro"})

Rejected == cstate = "failed" /\ cresult.err = MacroRecursionExceeded

\* C5: within one compiler macro_recursion never exceeds 100, and the
\* depth check rejects exactly the expansions that would exceed 100: the
\* nested expansions 1 through 100 are made, so an expansion is rejected
\* with MacroRecursionExceeded only inside 100 open ones, as the 101st.
C5_RejectsThe101st ==
    /\ \A k \in 1..Len(comps) : comps[k].macro_recursion <= MAX_MACRO_RECURSION
    /\ Rejected => OpenExpansions(Cur) >= MAX_MACRO_RECURSION

\* C6: in a single compile call the macro expansions nested inside one
\* another, through the bodies of nested lambdas too, number at most 100.
C6_NestingCapped == TotalNesting(comps) <= MAX_MACRO_RECURSION

IsPrefix(s, t) == Len(s) <= Len(t) /\ SubSeq(t, 1, Len(s)) = s
NoDuplicates(s) == \A i, j \in 1..Len(s) : s[i] = s[j] => i = j
Holds(s, x) == \E k \in 1..Len(s) : s[k] = x

\* the name a compile_value step refers to: the value itself, or the head
\* of the call it compiles
ReferencedName(v) ==
    IF v.t = "name" THEN v.n
    ELSE IF v.t = "list" /\ v.li[1].t = "name" THEN v.li[1].n
    ELSE NoName

\* the instruction a block was given last
LastInstruction(b) ==
    IF b.instr_part # NoInstr THEN b.instr_part
    ELSE IF b.bytes # <<>> THEN b.bytes[Len(b.bytes)]
    ELSE NoInstr

\* the slot of the rightmost entry of stk that binds name
RightmostSlot(stk, name) ==
    LET k == CHOOSE k \in 1..Len(stk) :
                 /\ stk[k][1] = name
                 /\ \A j \in (k + 1)..Len(stk) : stk[j][1] # name
    IN  stk[k][2]

\* a step of the compilers that were there before it and are there after it
C7_Captures ==
    \A k \in 1..(IF Len(comps) < Len(comps') THEN Len(comps) ELSE Len(comps')) :
        /\ IsPrefix(comps[k].captures, comps'[k].captures)
        /\ NoDuplicates(comps'[k].captures)

\* compile_value of a name, or of a call of a name, by compiler c, which is d after it
C7_Reference(c, d, outer, name) ==
    LET last == LastInstruction(current_block(d))
    IN  IF OnStack(c.stack, name)
        THEN /\ last.op \in {"Load", "LoadPush"}
             /\ last.a = RightmostSlot(c.stack, name)
             /\ d.captures = c.captures
        ELSE /\ d.captures \in {c.captures, Append(c.captures, name)}
             /\ Holds(d.captures, name) =>
                    /\ last.op \in {"LoadC", "LoadCPush"}
                    /\ d.captures[last.a + 1] = name
             /\ ~Holds(d.captures, name) =>
                    \/ name = c.self_name
                    \/ \A o \in 1..Len(outer) : ~OnStack(outer[o].stack, name)

C7_Step ==
    /\ C7_Captures
    /\ Len(comps') > Len(comps) => comps'[Len(comps')].captures = <<>>
    /\ (Running("value") /\ ReferencedName(CurTask.args[1]) # NoName) =>
            C7_Reference(Rest, comps'[Len(comps)], Outer, ReferencedName(CurTask.args[1]))

\* C7: a compiler's capture list holds each captured name once, in the
\* order of first reference; entries are never removed or reordered; the
\* index of LoadC is the position of the name in the list; a name on the
\* compiler's own stack compiles to Load of its rightmost slot and is not
\* captured, whatever the enclosing compilers bind.
C7_CapturesOnceInOrder == [][C7_Step]_vars

\* (let ((a 1) (x 2) (b 3)) (lambda (a) (list x b a x b))): the lambda has
\* captured x and b, each once, and loaded its own a, which the let binds too
C7_Witness ==
    /\ cstate = "running"
    /\ Len(comps) = 2
    /\ Cur.captures = <<"x", "b">>
    /\ OnStack(Cur.stack, "a") /\ OnStack(comps[1].stack, "a")
    /\ current_block(Cur).bytes =
           <<I1("LoadCPush", 0), I1("LoadCPush", 1), I1("LoadPush", 0),
             I1("LoadCPush", 0), I1("LoadCPush", 1)>>

\* no two values of the pool are identical
NoIdentical(consts) ==
    \A i, j \in 1..Len(consts) : is_identical(consts[i], consts[j]) => i = j

\* the constant indices that instructions carry are indices of a pool of n values
IndicesWithin(instrs, n) ==
    \A k \in 1..Len(instrs) : instrs[k].op \in ConstOps => instrs[k].a < n

\* a block of a compiler at work: its instructions, the pending one, its jump
BlockWithin(b, n) ==
    /\ IndicesWithin(b.bytes, n)
    /\ IndicesWithin(<<b.instr_part>>, n)
    /\ b.jump.j \in ConstOps => b.jump.a < n

\* a Code value, and the Code of every lambda among its constants
RECURSIVE CodeWithin(_)
CodeWithin(code) ==
    /\ NoIdentical(code.consts)
    /\ IndicesWithin(code.code, Len(code.consts))
    /\ \A k \in 1..Len(code.consts) :
           code.consts[k].t = "lambda" => CodeWithin(code.consts[k].code)

\* C8: a constant pool never holds two identical values, and every
\* constant index carried by an instruction or a jump (Const, GetDef,
\* SetDef, CallConst, EqConst, NotEqConst, JumpIfEqConst, BuildClosure) is
\* less than the length of the pool, in the compilers at work and in the
\* Code they emit.
C8_ConstPool ==
    /\ \A k \in 1..Len(comps) :
           /\ NoIdentical(comps[k].consts)
           /\ \A n \in 1..Len(comps[k].blocks) :
                  BlockWithin(comps[k].blocks[n], Len(comps[k].consts))
           /\ \A n \in 1..Len(comps[k].consts) :
                  comps[k].consts[n].t = "lambda" => CodeWithin(comps[k].consts[n].code)
    /\ cstate = "done" => CodeWithin(cresult.code)

\* Code is emitted whose pool holds several constants, one of them the
\* Code of a lambda, and two of its instructions carry the same index
C8_Witness ==
    /\ cstate = "done"
    /\ Len(cresult.code.consts) >= 2
    /\ \E k \in 1..Len(cresult.code.consts) : cresult.code.consts[k].t = "lambda"
    /\ \E i, j \in 1..Len(cresult.code.code) :
           /\ i < j
           /\ cresult.code.code[i].op \in ConstOps
           /\ cresult.code.code[j].op \in ConstOps
           /\ cresult.code.code[i].a = cresult.code.code[j].a

\* the Append instructions among instrs
Appends(instrs) == Cardinality({k \in 1..Len(instrs) : instrs[k].op = "Append"})

\* the Append instructions a compiler has emitted: each is an inlined
\* (append a b), whose Push of a is booked and never booked back
RECURSIVE AppendCount(_)
AppendCount(blocks) ==
    IF blocks = <<>> THEN 0
    ELSE Appends(blocks[1].bytes) + Appends(<<blocks[1].instr_part>>)
         + AppendCount(Tail(blocks))

\* stack_offset when a compiler starts on its expression: its parameters
StartOffset(c) == TotalParams(c.lam)

\* C9 as the spec has it: when the complete expression is compiled,
\* stack_offset is one greater than it was at the start.
C9_OneGreater == Running("assemble") => Cur.stack_offset = StartOffset(Cur) + 1

\* C9, amended: when the complete expression (of compile, or the body of
\* a lambda) is compiled, stack_offset equals stack_offset at the start
\* plus the number of two-argument append calls compiled inline; the
\* value of the expression is left in the value register.
C9_OffsetRestored ==
    Running("assemble") => Cur.stack_offset = StartOffset(Cur) + AppendCount(Cur.blocks)

\* the body of a lambda with parameters is compiled, calls and an inlined
\* append among its instructions
C9_Witness ==
    /\ Running("assemble")
    /\ Len(comps) = 2
    /\ StartOffset(Cur) >= 1
    /\ AppendCount(Cur.blocks) = 1
    /\ Cur.stack_offset = StartOffset(Cur) + 1

\* the byte offset at which the block laid out at position p starts: the
\* bytes of the blocks before it
StartOfPosition(blocks, p, short) == SumSizes(get_bytes(SubSeq(blocks, 1, p - 1)), short)

\* the byte offsets at which the instructions of code start
InstructionStarts(code, short) ==
    {SumSizes(SubSeq(code, 1, k - 1), short) : k \in 1..Len(code)}

\* the positions in the layout of the blocks that kept a jump
Jumping(r) == {p \in 1..Len(r.laid) : r.laid[p].jump # NoJump}

\* the jump of the block at position p of the layout went to a retained
\* block and was written with the offset of that block
C10_JumpWritten(r, p) ==
    LET written == r.blocks[p].bytes[Len(r.blocks[p].bytes)]
    IN  /\ written.op = r.laid[p].jump.j
        /\ \E q \in 1..Len(r.order) :
               /\ r.order[q] = r.laid[p].jump.to
               /\ written.b = StartOfPosition(r.blocks, q, r.short)
        /\ written.b \in InstructionStarts(get_bytes(r.blocks), r.short)
        /\ written.b < SumSizes(get_bytes(r.blocks), r.short)

C10_Written(r) ==
    /\ ~r.hangs
    /\ ~r.panic
    /\ \A p \in Jumping(r) : C10_JumpWritten(r, p)

\* C10: for the blocks of every compiler that reaches assemble_code,
\* write_jumps ends, every jump of a retained block leads to a retained
\* block ("jump to dead block" is not asserted), and the operand written
\* is the byte offset at which that block starts, the first byte of an
\* instruction and less than the length of the code.
C10_JumpsResolved == Running("assemble") => C10_Written(write_jumps(Cur.blocks))

\* the code needs two-byte operands; of the blocks some are pruned, and of
\* the retained ones several jump, one of them to the last block
C10_Pruned(r) ==
    /\ ~r.hangs /\ ~r.panic
    /\ ~r.short
    /\ \E n \in 0..(Len(Cur.blocks) - 1) : r.offsets[n] = NoOffset
    /\ Cardinality(Jumping(r)) >= 2
    /\ \E p \in Jumping(r) :
           /\ r.laid[p].jump.j # "Jump"
           /\ r.laid[p].jump.to = r.order[Len(r.order)]

C10_Witness == Running("assemble") /\ C10_Pruned(write_jumps(Cur.blocks))

\* the blocks on the next-pointer chain walked from block i, in walk order
RECURSIVE ChainFrom(_, _, _)
ChainFrom(blocks, i, fuel) ==
    IF fuel = 0 THEN <<>>
    ELSE <<i>> \o (IF Blk(blocks, i).next = NoBlock THEN <<>>
                   ELSE ChainFrom(blocks, Blk(blocks, i).next, fuel - 1))

SeqToSet(s) == {s[k] : k \in 1..Len(s)}

\* the instructions the compiler pushed into block b
Pushed(b) == b.bytes \o (IF b.instr_part = NoInstr THEN <<>> ELSE <<b.instr_part>>)

\* the blocks that jump conditionally to block n
ConditionalTo(blocks, n) ==
    {m \in 0..(Len(blocks) - 1) :
        Blk(blocks, m).jump.j \notin {"none", "Jump"} /\ Blk(blocks, m).jump.to = n}

\* block n may be left out: it is mostly empty, control that enters it
\* reaches the end of the code, and no conditional jump leads to it
MayOmit(blocks, n) ==
    /\ is_mostly_empty(Blk(blocks, n))
    /\ block_returns(Blk(blocks, n), blocks)
    /\ ConditionalTo(blocks, n) = {}

\* the jump of block b may give way to a Return: it leads through mostly
\* empty blocks only to the end of the code
MayReturn(blocks, b) ==
    /\ block_returns(b, blocks)
    /\ b.jump # NoJump =>
          /\ is_mostly_empty(Blk(blocks, b.jump.to))
          /\ block_returns(Blk(blocks, b.jump.to), blocks)

\* what block n of blocks comes to in the output, its jump written to off
Written(blocks, n, off) ==
    LET b == Blk(blocks, n)
    IN  Pushed(b) \o (IF MayReturn(blocks, b) THEN <<I0("Return")>>
                      ELSE IF b.jump = NoJump THEN <<>>
                      ELSE <<Instr(b.jump.j, b.jump.a, off, "")>>)

\* the blocks of blocks were laid out as r
C11_Kept(blocks, r) ==
    /\ ~r.hangs /\ ~r.panic
    /\ SeqToSet(ChainFrom(blocks, 0, Len(blocks))) = 0..(Len(blocks) - 1)
    /\ \A n \in 0..(Len(blocks) - 1) :
           r.offsets[n] = NoOffset => MayOmit(blocks, n)
    /\ \A p \in 1..Len(r.order) :
           r.blocks[p].bytes =
               Written(blocks, r.order[p], r.offsets[Blk(blocks, r.order[p]).jump.to])

\* no instruction is lost with an omitted block
C11_NothingLost(blocks, r) ==
    \A n \in 0..(Len(blocks) - 1) : r.offsets[n] = NoOffset => Pushed(Blk(blocks, n)) = <<>>

C11_Laid(blocks, r) ==
    /\ ~r.hangs /\ ~r.panic
    /\ \E n \in 0..(Len(blocks) - 1) :
           r.offsets[n] = NoOffset /\ Blk(blocks, n).instr_part.op = "Skip"
    /\ \E p \in 1..Len(r.order) :
           Blk(blocks, r.order[p]).jump.j = "Jump" /\ r.laid[p].jump = NoJump
    /\ \E p \in 1..Len(r.order) : r.laid[p].jump.j \notin {"none", "Jump"}

RECURSIVE LongSize(_)
LongSize(blocks) ==
    IF blocks = <<>> THEN 0
    ELSE SumSizes(Pushed(blocks[1]), FALSE)
         + (IF blocks[1].jump = NoJump THEN 0
            ELSE 1 + 2 * (1 + JumpOperands(blocks[1].jump.j)))
         + LongSize(Tail(blocks))

\* the operands written for the jumps of the layout
JumpOperandsWritten(r) == {r.blocks[p].bytes[Len(r.blocks[p].bytes)].b : p \in Jumping(r)}

C12_Width(blocks, r) ==
    /\ r.short <=> LongSize(blocks) + 1 <= MAX_SHORT_OPERAND
    /\ ~r.overflow
    /\ r.short => \A off \in JumpOperandsWritten(r) : off <= MAX_SHORT_OPERAND

\* C12: the short operand width is chosen exactly when the sizes of all
\* blocks at the long width plus one come to at most MAX_SHORT_OPERAND;
\* with the short width every jump offset written fits the short operand,
\* and write_jump does not fail with OperandOverflow.
C12_WidthSound == Running("assemble") => C12_Width(Cur.blocks, write_jumps(Cur.blocks))

\* the estimate is exactly MAX_SHORT_OPERAND: the short width is chosen,
\* several blocks get a Return, and jumps are written
C12_AtLimit(blocks, r) ==
    /\ LongSize(blocks) + 1 = MAX_SHORT_OPERAND
    /\ r.short /\ ~r.hangs /\ ~r.panic
    /\ Cardinality({k \in 1..Len(get_bytes(r.blocks)) :
                       get_bytes(r.blocks)[k].op = "Return"}) >= 2
    /\ Cardinality(Jumping(r)) >= 2

C12_Witness == Running("assemble") /\ C12_AtLimit(Cur.blocks, write_jumps(Cur.blocks))

IsAtomOrName(v) == v.t \in {"name", "keyword", "integer", "unit", "bool", "float"}

\* atoms, names, and lists of them nested to any depth
RECURSIVE IsPlain(_)
IsPlain(v) ==
    \/ IsAtomOrName(v)
    \/ v.t = "list" /\ \A k \in 1..Len(v.li) : IsPlain(v.li[k])

\* the compiler of compile(scope, 'v) when the value is compiled
QuoteCompiler(v) == compile_value(with_outer(NoName), <<>>, VQuote(v, 1))

\* the Code of compile(scope, 'v)
QuoteCode(v) ==
    Code(NoName, assemble_code(QuoteCompiler(v).blocks), QuoteCompiler(v).consts,
         <<>>, 0, 0, 0)

Compiled(e) == cstate = "done" /\ expr = e

\* C13 as the spec has it: for a value v without commas (an atom, a name,
\* a list nested to any depth) the quasiquote of v compiles to the
\* instructions and the constant pool of the quote of v.
C13_RoundTrip ==
    \A v \in PlainValues :
        IsPlain(v) /\ Compiled(VQuasiquote(v, 1)) => cresult.code = QuoteCode(v)

\* C13, amended: for an atom or a name v the quasiquote of v compiles to
\* the instructions and the constant pool of the quote of v; for a list
\* without commas it does not: its elements are compiled one by one.
C13_AtomsRoundTrip ==
    \A v \in PlainValues :
        /\ Compiled(VQuote(v, 1)) => cresult.code = QuoteCode(v)
        /\ IsAtomOrName(v) /\ Compiled(VQuasiquote(v, 1)) => cresult.code = QuoteCode(v)
        /\ v.t = "list" /\ Compiled(VQuasiquote(v, 1)) =>
              /\ cresult.code # QuoteCode(v)
              /\ cresult.code.code[Len(cresult.code.code) - 1] = I1("List", Len(v.li))

\* `x is compiled: Const of the name, as for 'x
C13_Witness ==
    /\ Compiled(VQuasiquote(VName("x"), 1))
    /\ cresult.code.code = <<I1("Const", 0), I0("Return")>>
    /\ cresult.code.consts = <<VName("x")>>
    /\ cresult.code = QuoteCode(VName("x"))

\* the instructions of the emitted code with opcode op
CountOp(op) == Cardinality({k \in 1..Len(cresult.code.code) : cresult.code.code[k].op = op})

\* (if c t e) is compiled, c, t and e one instruction each
PlainIfCompiled ==
    /\ cstate = "done"
    /\ expr.t = "list" /\ Len(expr.li) = 4 /\ expr.li[1] = VName("if")
    /\ \A k \in 2..4 : IsAtomOrName(expr.li[k])

SelfCall(v) ==
    /\ v.t = "list"
    /\ v.li[1].t = "name"
    /\ Cur.self_name # NoName
    /\ v.li[1].n = Cur.self_name

\* compile_value meets a call of the lambda's own name: nothing is emitted
\* for the head unless the own stack binds it, and the arguments are
\* compiled and pushed before the call instruction
C15_Head(c, d, li) ==
    IF OnStack(c.stack, li[1].n)
    THEN /\ LastInstruction(current_block(d)).op = "LoadPush"
         /\ LastInstruction(current_block(d)).a = RightmostSlot(c.stack, li[1].n)
         /\ d.tasks = PushEach(Tail(li)) \o <<TCall(li, TRUE)>> \o c.tasks
         /\ d.consts = c.consts /\ d.captures = c.captures
         /\ d.macro_recursion = c.macro_recursion
    ELSE /\ d.blocks = c.blocks /\ d.consts = c.consts /\ d.captures = c.captures
         /\ d.macro_recursion = c.macro_recursion
         /\ d.tasks = PushEach(Tail(li)) \o <<TCall(li, FALSE)>> \o c.tasks

\* the call instruction of a call of the lambda's own name
C15_Call(c, d, li, pushed_fn) ==
    /\ LastInstruction(current_block(d)) =
            I1(IF pushed_fn THEN "Call" ELSE "CallSelf", Len(li) - 1)
    /\ d.consts = c.consts /\ d.captures = c.captures
    /\ d.tasks = c.tasks

C15_Step ==
    /\ (Running("value") /\ SelfCall(CurTask.args[1])) =>
            /\ cstate' = "running" /\ Len(comps') = Len(comps)
            /\ C15_Head(Rest, comps'[Len(comps)], CurTask.args[1].li)
    /\ (Running("call") /\ SelfCall(VList(CurTask.args))) =>
            /\ cstate' = "running" /\ Len(comps') = Len(comps)
            /\ C15_Call(Rest, comps'[Len(comps)], CurTask.args, CurTask.loc[1] = 1)
            /\ (CurTask.loc[1] = 1) = OnStack(Cur.stack, Cur.self_name)

ElseClause(clause) == clause.t = "list" /\ Len(clause.li) = 2 /\ clause.li[1] = VName("else")

\* the clauses of a case are args[2..], those of a cond args[1..]
FirstClause(name) == IF name = "case" THEN 2 ELSE 1
Unreachable(name) ==
    SyntaxErrorOf(IF name = "case" THEN "unreachable case" ELSE "unreachable condition")

\* clause k of args follows an else clause
AfterElse(name, args, k) == \E j \in FirstClause(name)..(k - 1) : ElseClause(args[j])

\* a case or cond form with an else clause before its last clause
ElseNotLast(v) ==
    /\ v.t = "list" /\ v.li[1] \in {VName("case"), VName("cond")}
    /\ \E k \in FirstClause(v.li[1].n)..Len(v.li) - 1 :
            AfterElse(v.li[1].n, Tail(v.li), k)

\* a case or cond form over atoms whose last clause is its only else clause
ElseLast(v) ==
    /\ v.t = "list" /\ v.li[1] \in {VName("case"), VName("cond")}
    /\ ~ElseNotLast(v)
    /\ ElseClause(v.li[Len(v.li)])
    /\ v.li[1] = VName("case") => IsAtomOrName(v.li[2])
    /\ \A k \in (FirstClause(v.li[1].n) + 1)..Len(v.li) :
            /\ v.li[k].t = "list" /\ Len(v.li[k].li) = 2
            /\ IsAtomOrName(v.li[k].li[2])
            /\ v.li[k].li[1].t = "list" => v.li[1] = VName("case") \/ IsAtomOrName(v.li[k].li[1])

\* the loop of op_case or op_cond is at the head of a clause
AtClause ==
    /\ Running("op") /\ CurTask.name \in {"case", "cond"}
    /\ CurTask.st = 1
    /\ CurTask.loc[2] <= Len(CurTask.args)

C16_Step ==
    AtClause =>
        IF AfterElse(CurTask.name, CurTask.args, CurTask.loc[2])
        THEN /\ cstate' = "failed"
             /\ cresult' = [NoResult EXCEPT !.err = Unreachable(CurTask.name)]
        ELSE cresult'.err \notin {Unreachable("case"), Unreachable("cond")}

\* C16: when the loop of op_case comes to a clause that follows an else
\* clause, compilation fails with SyntaxError("unreachable case"), and in
\* op_cond with SyntaxError("unreachable condition"); at any other clause
\* neither error is raised, a form with such a clause never compiles, and
\* a case or cond over atoms whose only else clause is the last never fails.
C16_UnreachableClause ==
    /\ [][C16_Step]_vars
    /\ [](cstate = "done" => ~ElseNotLast(expr))
    /\ [](ElseLast(expr) => cstate # "failed")

\* (case x ((1) a) (else 1) ((2) a) (else 2)) has failed at the clause
\* after the first else
C16_Witness ==
    /\ expr = Form("case", <<VName("x"), Clause(<<VInteger(1)>>, VName("a")), Else(VInteger(1)),
                             Clause(<<VInteger(2)>>, VName("a")), Else(VInteger(2))>>)
    /\ cstate = "failed"
    /\ cresult.err = SyntaxErrorOf("unreachable case")

\* what module m holds and exports
Defines(kind, n) ==
    IF kind = "value" THEN \E k \in 1..Len(ModuleM.values) : ModuleM.values[k].name = n
    ELSE \E k \in 1..Len(ModuleM.macros) : ModuleM.macros[k].name = n
InExportSet(n) == \E k \in 1..Len(ModuleM.exports) : ModuleM.exports[k] = n

\* what an item of kind installs under dest when it imports src from m
Installed(kind, src, dest) ==
    IF kind = "value"
    THEN Binding(dest, (CHOOSE b \in SeqToSet(ModuleM.values) : b.name = src).v)
    ELSE [(CHOOSE m \in SeqToSet(ModuleM.macros) : m.name = src) EXCEPT !.name = dest]
Bound(sc, kind) == SeqToSet(IF kind = "value" THEN sc.values ELSE sc.macros)

\* a name list of names and :dest src pairs
WellFormed(items) ==
    \A i \in 1..Len(items) :
        \/ items[i].t = "name"
        \/ items[i].t = "keyword" /\ i < Len(items) /\ items[i + 1].t = "name"
\* item i names a source; the name it is installed under
IsSource(items, i) == items[i].t = "name"
DestOf(items, i) ==
    IF i > 1 /\ items[i - 1].t = "keyword" THEN items[i - 1].n ELSE items[i].n
\* item i cannot be imported
Refuses(kind, items, i) ==
    IsSource(items, i) /\ ~(Defines(kind, items[i].n) /\ InExportSet(items[i].n))
FirstRefused(kind, items) ==
    CHOOSE i \in 1..Len(items) :
        Refuses(kind, items, i) /\ \A j \in 1..(i - 1) : ~Refuses(kind, items, j)
AnyRefused(kind, items) == \E i \in 1..Len(items) : Refuses(kind, items, i)
RefusalOf(kind, items) ==
    LET n == items[FirstRefused(kind, items)].n
    IN  IF Defines(kind, n) THEN PrivacyError("m", n) ELSE ImportError("m", n)
\* the items that are imported: those before the first one refused
Imported(kind, items) ==
    {i \in 1..Len(items) :
        IsSource(items, i) /\ \A j \in 1..i : ~Refuses(kind, items, j)}

\* (use m vlist) or (use m vlist :macro mlist) is about to run
AtUse ==
    /\ IsOp("use")
    /\ CurTask.args[1] = VName("m")
    /\ Len(CurTask.args) \in {2, 4}
    /\ CurTask.args[2].t \in {"unit", "list"}
    /\ Len(CurTask.args) = 4 =>
            CurTask.args[3] = VKeyword("macro") /\ CurTask.args[4].t \in {"unit", "list"}
ListAt(k) ==
    IF Len(CurTask.args) >= k /\ CurTask.args[k].t = "list" THEN CurTask.args[k].li ELSE <<>>

\* what a name list has installed: nothing but exported definitions of m
C17_OnlyExported(kind, before, after, items) ==
    \A b \in Bound(after, kind) \ Bound(before, kind) :
        \E i \in 1..Len(items) :
            /\ IsSource(items, i)
            /\ Defines(kind, items[i].n) /\ InExportSet(items[i].n)
            /\ b = Installed(kind, items[i].n, DestOf(items, i))

\* every imported item is installed, unless a later one took its name
C17_Installs(kind, after, items) ==
    \A i \in Imported(kind, items) :
        \/ Installed(kind, items[i].n, DestOf(items, i)) \in Bound(after, kind)
        \/ \E j \in Imported(kind, items) : j > i /\ DestOf(items, j) = DestOf(items, i)

C17_Step ==
    AtUse =>
        /\ C17_OnlyExported("value", scope, scope', ListAt(2))
        /\ C17_OnlyExported("macro", scope, scope', ListAt(4))
        /\ (WellFormed(ListAt(2)) /\ AnyRefused("value", ListAt(2))) =>
                /\ cstate' = "failed"
                /\ cresult'.err = RefusalOf("value", ListAt(2))
                /\ scope'.macros = scope.macros
        /\ WellFormed(ListAt(2)) => C17_Installs("value", scope', ListAt(2))
        /\ (WellFormed(ListAt(2)) /\ ~AnyRefused("value", ListAt(2)) /\ WellFormed(ListAt(4))) =>
                /\ C17_Installs("macro", scope', ListAt(4))
                /\ IF AnyRefused("macro", ListAt(4))
                   THEN cstate' = "failed" /\ cresult'.err = RefusalOf("macro", ListAt(4))
                   ELSE cstate' = "running"

\* C17: whatever a use name list installs in the importing scope is a
\* value, or macro, that the source module defines and has in its export
\* set, under its own name or the dest of a :dest src pair; the first
\* listed source name that cannot be imported fails with ImportError if
\* the module does not define it and with PrivacyError if it is defined
\* but not exported; the items before it are installed.
C17_ImportsExported == [][C17_Step]_vars

\* (use m (pub :own pub) :macro (:m2 mac pmac)): pub is installed as pub
\* and as own, mac as m2, and the private pmac is refused
C17_Witness ==
    /\ cstate = "failed"
    /\ expr.t = "list" /\ expr.li[1] = VName("use") /\ Len(expr.li) = 5
    /\ cresult.err = PrivacyError("m", "pmac")
    /\ Binding("pub", VInteger(1)) \in Bound(scope, "value")
    /\ Binding("own", VInteger(1)) \in Bound(scope, "value")
    /\ Macro("m2", "loop", NoCode) \in Bound(scope, "macro")

\* the names of the parameter slots of the lambda a compiler compiles:
\* positional and optional, keyword, then the :rest name
SlotNames(lam) ==
    ParamNames(lam.params) \o ParamNames(lam.kw_params)
    \o (IF lam.rest # NoName THEN <<lam.rest>> ELSE <<>>)

\* C18: make_lambda goes on to compile_lambda only with parameter slots
\* that are named apart, whatever their kinds, the :rest name included:
\* no compiler of the chain compiles a lambda with a name on two slots.
C18_NoSharedSlotName ==
    cstate \in {"running", "hangs"} =>
        \A k \in 2..Len(comps) : NoDuplicates(SlotNames(comps[k].lam))

\* what an instruction does to the height of the VM stack when it runs:
\* Push and the fused loads push one value; the calls, List, Skip and
\* BuildClosure pop their operands; Eq, NotEq and Append pop the left
\* operand that was pushed for them
VMEffect(instr) ==
    CASE instr.op \in {"Push", "LoadPush", "LoadCPush"} -> 1
      [] instr.op \in {"BuildClosure", "CallSysArgs", "CallConst"} -> 0 - instr.b
      [] instr.op \in {"List", "Skip", "CallSelf"} -> 0 - instr.a
      [] instr.op \in {"Call", "Apply"} -> 0 - (instr.a + 1)
      [] instr.op = "CallSys" -> 0 - get_system_fn(instr.fn).lo
      [] instr.op \in {"Eq", "NotEq", "Append"} -> 0 - 1
      [] OTHER -> 0

RECURSIVE VMEffects(_)
VMEffects(instrs) ==
    IF instrs = <<>> THEN 0 ELSE VMEffect(instrs[1]) + VMEffects(Tail(instrs))

\* the height the instructions emitted so far leave the VM stack at, over
\* the height at the start: every branch they hold is complete, and
\* leaves the height as it found it, but for the one being emitted
RECURSIVE EmittedHeight(_)
EmittedHeight(blocks) ==
    IF blocks = <<>> THEN 0
    ELSE VMEffects(blocks[1].bytes) + VMEffect(blocks[1].instr_part)
         + EmittedHeight(Tail(blocks))

\* C19: at every point of a compilation, in every compiler of the chain,
\* stack_offset is the height of the VM stack that the instructions
\* emitted so far produce, the instructions of the inlined intrinsics
\* among them.
C19_OffsetIsHeight ==
    cstate = "running" =>
        \A k \in 1..Len(comps) :
            comps[k].stack_offset = StartOffset(comps[k]) + EmittedHeight(comps[k].blocks)

\* a comma or ,@ whose depth is greater than the quasiquote depth it is met at
Unbalanced(v, depth) == v.t \in {"comma", "comma-at"} /\ v.d > depth

\* the compiler is about to compile such a form: compile_value meets it
\* outside any quasiquote, compile_quasiquote at its depth, and
\* compile_quasiquote_list as an element of the list
MeetsUnbalanced ==
    \/ Running("value") /\ Unbalanced(CurTask.args[1], 0)
    \/ Running("quasi") /\ Unbalanced(CurTask.args[1], CurTask.st)
    \/ /\ Running("qlist")
       /\ CurTask.st <= Len(CurTask.args)
       /\ Unbalanced(CurTask.args[CurTask.st], CurTask.loc[3])

\* does compiling v at depth 0, or quasiquoted at a depth, meet one
RECURSIVE EvalMeets(_), QuasiMeets(_, _)
EvalMeets(v) ==
    CASE v.t \in {"comma", "comma-at"} -> TRUE
      [] v.t = "quasiquote" -> QuasiMeets(v, 0)
      [] v.t = "list" -> \E k \in 1..Len(v.li) : EvalMeets(v.li[k])
      [] OTHER -> FALSE
QuasiMeets(v, depth) ==
    CASE v.t = "comma" ->
            \/ v.d > depth
            \/ v.d = depth /\ EvalMeets(v.v)
            \/ v.d < depth /\ QuasiMeets(v.v, depth - v.d)
      [] v.t = "comma-at" -> v.d > depth
      [] v.t = "list" ->
            \E k \in 1..Len(v.li) :
                IF v.li[k].t = "comma-at"
                THEN \/ v.li[k].d > depth
                     \/ v.li[k].d = depth /\ EvalMeets(v.li[k].v)
                     \/ v.li[k].d < depth /\ QuasiMeets(v.li[k].v, depth - v.li[k].d)
                ELSE QuasiMeets(v.li[k], depth)
      [] v.t = "quote" -> QuasiMeets(v.v, depth)
      [] v.t = "quasiquote" -> QuasiMeets(v.v, depth + v.d)
      [] OTHER -> FALSE

\* C20: a Comma or CommaAt met at a quasiquote depth smaller than its own
\* depth, outside any quasiquote, inside the body of a comma that is
\* being evaluated, or as a ,@ element of a quasiquoted list, ends the
\* compilation with UnbalancedComma; no quasiquote or comma form that
\* holds one where the compiler meets it is ever compiled.
C20_UnbalancedComma ==
    /\ [][MeetsUnbalanced =>
            /\ cstate' = "failed"
            /\ cresult' = [NoResult EXCEPT !.err = UnbalancedComma]]_vars
    /\ [](cstate = "done" /\ expr.t \in {"comma", "comma-at", "quasiquote"} => ~EvalMeets(expr))

\* `(a ,(f ,x)): the inner comma was met in the body of the evaluated one
C20_Witness ==
    /\ expr = VQuasiquote(VList(<<VName("a"),
                                  VComma(Form("f", <<VComma(VName("x"), 1)>>), 1)>>), 1)
    /\ cstate = "failed"
    /\ cresult.err = UnbalancedComma

\* a ,@ form whose depth is smaller than the quasiquote depth it is met at
Shallow(v, depth) == v.t = "comma-at" /\ v.d < depth

\* the work the compiler goes on with after a step
NextTasks == comps'[Len(comps)].tasks

\* recurse on x at depth d - n, then emit CommaAt(d - n)
RecursesThenCommaAt(v, depth) ==
    /\ cstate' = "running"
    /\ Len(comps') = Len(comps)
    /\ Len(NextTasks) >= 2
    /\ SubSeq(NextTasks, 1, 2) = <<TQuasi(v.v, depth - v.d), TInstr(I1("CommaAt", depth - v.d))>>

C21_InList ==
    (/\ Running("qlist")
     /\ CurTask.st <= Len(CurTask.args)
     /\ Shallow(CurTask.args[CurTask.st], CurTask.loc[3]))
        => RecursesThenCommaAt(CurTask.args[CurTask.st], CurTask.loc[3])

C21_OutsideList ==
    (Running("quasi") /\ Shallow(CurTask.args[1], CurTask.st))
        => RecursesThenCommaAt(CurTask.args[1], CurTask.st)

\* C21: a ,@x of depth n met at quasiquote depth d > n is compiled by
\* compiling x at depth d - n and then emitting CommaAt(d - n), as an
\* element of a quasiquoted list and outside a list alike.
C21_ShallowCommaAt == [][C21_InList /\ C21_OutsideList]_vars

\* the parameter compile_lambda of compiler c is at: the slot of its
\* param task, or the number of slots once the body is being compiled
ParamTasks(c) == {k \in 1..Len(c.tasks) : c.tasks[k].k = "param"}
SlotAt(c) ==
    IF ParamTasks(c) = {} THEN TotalParams(c.lam)
    ELSE c.tasks[CHOOSE k \in ParamTasks(c) : TRUE].st
\* the default expression of slot SlotAt(c) is being compiled
InDefault(c) == \E k \in ParamTasks(c) : c.tasks[k].loc # <<>>

\* the stack entries of the parameters: slots below i carry their names,
\* slot i and the later ones the dummy name, each at its own position
C22_Slots(c) ==
    /\ Len(c.stack) >= TotalParams(c.lam)
    /\ \A j \in 1..TotalParams(c.lam) :
            c.stack[j] = <<IF j <= SlotAt(c) THEN SlotNames(c.lam)[j] ELSE DummyName, j - 1>>
    /\ \A j \in (TotalParams(c.lam) + 1)..Len(c.stack) : c.stack[j][2] >= TotalParams(c.lam)

\* a Load of a parameter slot emitted for a default expression is of a
\* slot below the one the default belongs to
C22_Loads(c) ==
    LET last == LastInstruction(current_block(c))
    IN  (InDefault(c) /\ last.op \in {"Load", "LoadPush"} /\ last.a < TotalParams(c.lam))
            => last.a < SlotAt(c)

\* C22: while compile_lambda is at the parameter of slot i, its default
\* expression included, the stack entries of slot i and of all later
\* slots carry the dummy name and those below i their names; parameter k
\* is at slot k throughout, keyword parameter j at n_params + j, the rest
\* parameter last, whatever the default expressions push; a Load in a
\* default expression reaches only parameters below i.
C22_DummySlots ==
    cstate = "running" =>
        \A k \in 2..Len(comps) : C22_Slots(comps[k]) /\ C22_Loads(comps[k])

\* the default of the second of two slots is being compiled: its let has
\* loaded the first parameter and bound a local above the parameters
C22_Witness ==
    /\ cstate = "running"
    /\ Len(comps) = 2
    /\ InDefault(Cur)
    /\ SlotAt(Cur) = 1
    /\ TotalParams(Cur.lam) = 2
    /\ Len(Cur.stack) = 3
    /\ LastInstruction(current_block(Cur)).op \in {"Load", "LoadPush"}
    /\ LastInstruction(current_block(Cur)).a = 0

\* C23. While the loader's load_module runs for a get_module, and while the
\* closure guarded by guard_import runs, no borrow of the module cache or of
\* the path chain is held by any activation; a get_module re-entered from a
\* module's use, at any depth, finds both cells unborrowed.
InLoadModule(k) ==
    \/ k < Len(stack)
    \/ stack[k].pc \in {"read_code", "compile", "execute", "check_exports", "write"}

HeldBelow(k) == UNION {Borrowed(stack[j].pc) : j \in 1..(k - 1)}

HeadCase(closure_first, c, outer, sc, li) ==
    LET name == li[1].n
        closure == closure_value(c, outer, name).r >= 0
    IN  IF OnStack(c.stack, name) THEN "binding"
        ELSE IF closure_first /\ closure THEN "binding"
        ELSE IF c.self_name # NoName /\ c.self_name = name THEN "self"
        ELSE IF closure THEN "binding"
        ELSE IF is_macro(sc, name) THEN "macro"
        ELSE IF is_system_operator(name) THEN "operator"
        ELSE IF inline_call(c, name, Tail(li)).r THEN "intrinsic"
        ELSE IF get_system_fn(name) # NoArity THEN "system"
        ELSE "const"

\* what compile_value did with the call li, seen from the compiler before
\* (c) and after (d) the step
HeadDid(c, d, li) ==
    LET name == li[1].n
        args == Tail(li)
        last == LastInstruction(current_block(d))
    IN  IF d.macro_recursion = c.macro_recursion + 1 THEN "macro"
        ELSE IF d.err = ArityError(name) THEN "operator"
        ELSE IF d.tasks = <<TOp(name, 0, args, <<>>)>> \o c.tasks THEN "operator"
        ELSE IF /\ d.tasks = PushEach(args) \o <<TCall(li, TRUE)>> \o c.tasks
                /\ last.op \in {"LoadPush", "LoadCPush"}
        THEN "binding"
        ELSE IF /\ d.tasks = PushEach(args) \o <<TCall(li, FALSE)>> \o c.tasks
                /\ d.blocks = c.blocks
        THEN "call"
        ELSE "intrinsic"

\* the call instruction that ends a call whose head was not pushed
CallDid(c, d, li) ==
    LET last == LastInstruction(current_block(d))
    IN  IF last = I1("CallSelf", Len(li) - 1) THEN "self"
        ELSE IF d.err = ArityError(li[1].n) \/ last.op \in {"CallSys", "CallSysArgs"}
        THEN "system"
        ELSE IF /\ last.op = "CallConst" /\ last.b = Len(li) - 1
                /\ d.consts[last.a + 1] = VName(li[1].n)
        THEN "const"
        ELSE "other"

HeadStep(closure_first) ==
    /\ (Running("value") /\ CurTask.args[1].t = "list" /\ CurTask.args[1].li[1].t = "name") =>
            \E case \in {HeadCase(closure_first, Rest, Outer, scope, CurTask.args[1].li)} :
                HeadDid(Rest, comps'[Len(comps)], CurTask.args[1].li) =
                    (IF case \in {"self", "system", "const"} THEN "call" ELSE case)
    /\ (Running("call") /\ CurTask.args[1].t = "name") =>
            IF CurTask.loc[1] = 1
            THEN LastInstruction(current_block(comps'[Len(comps)])) =
                    I1("Call", Len(CurTask.args) - 1)
            ELSE CallDid(Rest, comps'[Len(comps)], CurTask.args) =
                    HeadCase(closure_first, Rest, Outer, scope, CurTask.args)

\* C24 as stated: for a list whose head is a name the compiler takes the
\* first applicable of: local or closure binding (Load or LoadC, Push, then
\* Call), self-name (CallSelf), macro, system operator, intrinsic at a
\* matching arity, system function, and CallConst otherwise.
C24_ClosureBeforeSelf == [][HeadStep(TRUE)]_vars

\* C24, amended: the order is local binding on the compiler's own stack,
\* self-name, closure binding, macro, system operator, intrinsic, system
\* function, CallConst; a local or closure binding named like a macro,
\* operator or intrinsic shadows it, and a macro named like a system
\* operator is expanded.
C24_HeadOrder == [][HeadStep(FALSE)]_vars

\* (do (use m () :macro (:if mac)) (if)): the macro imported under the name
\* of the operator if has been expanded twice
C24_Witness ==
    /\ cstate = "running"
    /\ is_macro(scope, "if")
    /\ Len(comps) = 1
    /\ Cur.macro_recursion = 2


\* item i of a value list would be installed under a name the importing
\* scope binds, and the use gets as far as item i
Shadows(sc, items, i) ==
    /\ IsSource(items, i)
    /\ contains_value(sc, DestOf(items, i))
    /\ \A j \in 1..i : ~Refuses("value", items, j)
FirstShadow(sc, items) ==
    CHOOSE i \in 1..Len(items) :
        Shadows(sc, items, i) /\ \A j \in 1..(i - 1) : ~Shadows(sc, items, j)

C25_Step ==
    (/\ AtUse
     /\ WellFormed(ListAt(2))
     /\ \E i \in 1..Len(ListAt(2)) : Shadows(scope, ListAt(2), i)) =>
        \E dest \in {DestOf(ListAt(2), FirstShadow(scope, ListAt(2)))} :
            /\ cstate' = "failed"
            /\ cresult'.err = ImportShadow("m", dest)
            /\ get_value(scope', dest) = get_value(scope, dest)

\* C25: a use that would install a value under a destination name the
\* importing scope already binds fails with ImportShadow of the module and
\* the name, and leaves the existing binding as it was.
C25_ImportShadow == [][C25_Step]_vars


\* what add_const_value is to store for the Quote q
Stored(q) == IF q.d = 1 THEN q.v ELSE VQuote(q.v, q.d - 1)

\* the constants the step adds to the pool of the current compiler
NewConsts ==
    {comps'[Len(comps)].consts[k] : k \in (Len(Cur.consts) + 1)..Len(comps'[Len(comps)].consts)}
ConstsAfter == SeqToSet(comps'[Len(comps)].consts)

\* a constant load of the Quote q, or q as the constant operand of an
\* inlined = or /=: whatever the step adds to the pool is Stored(q)
C26_Loads ==
    /\ (Running("value") /\ CurTask.args[1].t = "quote") =>
            NewConsts \subseteq {Stored(CurTask.args[1])}
    /\ (Running("instr") /\ CurTask.args # <<>> /\ CurTask.args[1].t = "quote") =>
            /\ NewConsts \subseteq {Stored(CurTask.args[1])}
            /\ Stored(CurTask.args[1]) \in ConstsAfter
    /\ (/\ Running("value")
        /\ CurTask.args[1].t = "list"
        /\ CurTask.args[1].li[1].t = "name"
        /\ CurTask.args[1].li[1].n \in {"=", "/="}
        /\ Len(CurTask.args[1].li) = 3
        /\ HeadCase(FALSE, Rest, Outer, scope, CurTask.args[1].li) = "intrinsic"
        /\ CurTask.args[1].li[2].t = "quote"
        /\ ~is_constant(CurTask.args[1].li[3])) =>
            /\ NewConsts \subseteq {Stored(CurTask.args[1].li[2])}
            /\ Stored(CurTask.args[1].li[2]) \in ConstsAfter

\* op_case is at a clause with a list of pattern literals
AtPatterns ==
    /\ IsOp("case")
    /\ CurTask.st = 1
    /\ CurTask.loc[2] <= Len(CurTask.args)
    /\ CurTask.loc[3] # 1
    /\ CurTask.args[CurTask.loc[2]].t = "list"
    /\ Len(CurTask.args[CurTask.loc[2]].li) = 2
    /\ CurTask.args[CurTask.loc[2]].li[1].t = "list"
QuotePatterns == {q \in SeqToSet(CurTask.args[CurTask.loc[2]].li[1].li) : q.t = "quote"}

C26_Patterns ==
    AtPatterns =>
        /\ \A q \in QuotePatterns : Stored(q) \in ConstsAfter
        /\ NewConsts \cap QuotePatterns \subseteq {Stored(q) : q \in QuotePatterns}

\* C26: on every path that adds constants (constant loads, constant
\* operands of = and /=, literals of case patterns) a Quote(inner, 1) is
\* stored as inner and a Quote(inner, n) with n > 1 as Quote(inner, n - 1);
\* no Quote is stored with its original depth.
C26_QuoteStripped == [][C26_Loads /\ C26_Patterns]_vars


\* the next-pointer chain from block 0, followed one step further than
\* there are blocks
NextChain(blocks) == ChainFrom(blocks, 0, Len(blocks) + 1)

\* the chain ends, and passes no block twice
Acyclic(blocks, ch) ==
    /\ Len(ch) <= Len(blocks)
    /\ NoDuplicates(ch)
    /\ Blk(blocks, ch[Len(ch)]).next = NoBlock

\* every jump of a block of the chain leads to a block further along
JumpsForward(blocks, ch) ==
    \A p \in 1..Len(ch) :
        Blk(blocks, ch[p]).jump # NoJump =>
            \E q \in (p + 1)..Len(ch) : ch[q] = Blk(blocks, ch[p]).jump.to

\* when the walk of write_jumps comes to the q-th block of the chain, the
\* block is marked must_live if any block jumps to it conditionally
MarkedBeforeVisit(blocks, ch) ==
    \A q \in 1..Len(ch) :
        ConditionalTo(blocks, ch[q]) # {} =>
            WalkBlocks(WalkStart(blocks), TRUE, q - 1).must_live[ch[q]]

\* C27. In the block graph of every compiler that reaches assemble_code,
\* the next-pointer chain from block 0 is finite and acyclic and every jump
\* targets a block later in the chain than the block that holds it; the
\* walks of block_returns and write_jumps end, and every target of a
\* conditional jump is marked must_live before the walk visits it.
C27_ForwardJumps ==
    Running("assemble") =>
        /\ Acyclic(Cur.blocks, NextChain(Cur.blocks))
        /\ JumpsForward(Cur.blocks, NextChain(Cur.blocks))
        /\ MarkedBeforeVisit(Cur.blocks, NextChain(Cur.blocks))
        /\ ~write_jumps(Cur.blocks).hangs

\* a lambda whose optional parameter's default holds an if inside a case
\* inside an and, and whose body holds an or inside a let inside a cond:
\* its blocks are about to be assembled
C27_Witness ==
    /\ Running("assemble")
    /\ Len(comps) = 2
    /\ \A j \in {"JumpIfBound", "JumpIfEqConst", "JumpIfNot", "JumpIf", "Jump"} :
            \E m \in 0..(Len(Cur.blocks) - 1) : Blk(Cur.blocks, m).jump.j = j


\* C28: the assertion of load_lambda never fails: every name a nested
\* lambda reports as captured loads in the compiler that builds the
\* closure, also when the name is the enclosing lambda's self-name and only
\* a compiler further out binds it on its stack.
C28_CapturesLoad == cresult.err # Panic("assertion failed: _loaded")


\* the activation is inside guard_import: its path is pushed, not yet popped
InGuard(f) ==
    f.pc \in {"read_code", "compile", "execute", "check_exports", "write", "unguard"}

\* the paths of the file loads in progress, outermost first
GuardedPaths ==
    LET guarded == SelectSeq(stack, InGuard)
    IN  [k \in 1..Len(guarded) |-> PathOf(guarded[k].name, FILE_EXTENSION)]

\* C29. The path chain holds the paths of the guarded loads in progress
\* and nothing else: when a load_module call returns, with a module or
\* with an error, at any depth, the chain is what it was before the call,
\* and it is empty when the outermost load has returned; so no later load
\* meets a path that a failed load left behind.
C29_ChainRestored ==
    /\ chain = GuardedPaths
    /\ stack = <<>> => chain = <<>>

\* a load of a file module failed inside the load of another, both calls
\* have returned, and a second load of the failed module has returned the
\* same error again, not ImportCycle
C29_Witness ==
    /\ stack = <<>>
    /\ chain = <<>>
    /\ \E i, j, k \in LogIdx :
            /\ i < j /\ j < k
            /\ log[i].depth = 2 /\ ~log[i].res.ok /\ log[i].res.err = SyntaxError
            /\ log[j].depth = 1 /\ log[j].name # log[i].name
            /\ log[k].name = log[i].name /\ log[k].res = log[i].res


\* the activation loads its module from the source file
FromSource(f) == f.via \in {"source", "fallback"} /\ InGuard(f)

\* where load_module_from_file stands in the file of activation f: in the
\* compile loop nothing is executed and the expressions before the current
\* one are compiled; an expression is executed only when all are compiled
C30_Order(f) ==
    /\ f.pc = "compile" => f.executed = 0 /\ f.compiled = f.i - 1
    /\ f.executed > 0 => f.compiled = Len(source[f.name])
    /\ f.pc = "execute" => f.compiled = Len(source[f.name]) /\ f.executed = f.i - 1
    /\ f.pc \in {"check_exports", "write"} =>
            f.compiled = Len(source[f.name]) /\ f.executed = Len(source[f.name])
    /\ f.compiled < Len(source[f.name]) /\ f.pc = "unguard" =>
            f.executed = 0 /\ ~f.res.ok

\* an expression fails to compile: the load goes straight to its return
\* with that error, and the return writes no file
C30_Fails ==
    /\ (stack # <<>> /\ Top.pc = "compile" /\ FromSource(Top) /\ AtItem /\ CurItem.k = "bad") =>
            /\ stack'[Len(stack)].pc = "unguard"
            /\ stack'[Len(stack)].res = Err(SyntaxError)
            /\ files' = files
    /\ (stack # <<>> /\ Top.pc = "unguard" /\ FromSource(Top)
            /\ Top.compiled < Len(source[Top.name])) =>
            /\ Len(stack') = Len(stack) - 1
            /\ log' = Append(log, [name |-> Top.name, depth |-> Len(stack), res |-> Top.res])
            /\ files' = files

\* C30. When a module is loaded from source, every top-level expression
\* of the file is compiled, in source order, before any is executed; if
\* one fails to compile, none is executed, the export check does not run,
\* no bytecode file is written, and the load returns that error.
C30_CompileBeforeExecute ==
    [][(\A k \in 1..Len(stack) : FromSource(stack[k]) => C30_Order(stack[k])) /\ C30_Fails]_vars

\* the file is (export ...) followed by an expression that does not
\* compile: the first is compiled, the second has failed, nothing is
\* executed and the load is about to return the error
C30_Witness ==
    /\ stack # <<>>
    /\ Top.pc = "unguard"
    /\ Top.via = "source"
    /\ source[Top.name] = <<ExportItem, BadItem>>
    /\ Top.compiled = 1 /\ Top.executed = 0
    /\ Top.res = Err(SyntaxError)
    /\ ~files[Top.name].code

====
